---- MODULE Spec2Model ----
(***************************************************************************)
(* A model of the analytical core of the moonandsun application            *)
(* (src/app.py): circular-angle arithmetic, house assignment, aspect       *)
(* detection, chart-pattern recognition, midpoints, synastry and           *)
(* transits, the return finder, the collection of body positions with its  *)
(* secondary source, dignities, the electional scan, the selection of the  *)
(* aspects drawn on the wheel, the aspects to the chart angles, and the    *)
(* store of saved charts (the PNG files and their index).                  *)
(*                                                                         *)
(* Each pure function is modelled as an operator that computes what the    *)
(* Python code computes, and is checked under a specification whose        *)
(* initial states draw the arguments of one call and whose actions         *)
(* perform the call (pc goes from "start" to "done"; a chart goes through  *)
(* "aspects" when its aspects are computed before its patterns are         *)
(* detected).  A function with a loop whose steps matter (the bisection,   *)
(* the loop over the bodies, the scan of the range) starts at pc = "loop"  *)
(* and has one action per pass of the loop and one for the return.         *)
(*                                                                         *)
(* Longitudes are degrees.  The model draws them from the integers, which  *)
(* the float arithmetic of the code treats exactly; a strength, which is   *)
(* the quotient 1 - orb/maxOrb, is kept as an exact fraction <<n, d>>; a   *)
(* midpoint is kept in half degrees.  The return finder counts time in     *)
(* ticks, Bracket of them to the initial bracket, and differences of       *)
(* longitude in units of 2.5e-8 degree.                                    *)
(***************************************************************************)
EXTENDS Integers, Sequences, FiniteSets, TLC

VARIABLES
    pc,             \* "start" before the call, "loop" within it, "done" after
    lon1,           \* angular_distance, midpoint_angle: first argument
    lon2,           \* angular_distance, midpoint_angle: second argument
    diff,           \* angular_distance: returned value
    longitude,      \* house_for: the longitude to place
    cusps,          \* house_for: the 12 house cusps
    house,          \* house_for: returned house number
    positions,      \* a chart: the dict name -> longitude, in order
    aspects,        \* an aspect list: returned by compute_aspects, or given
    patterns,       \* the dict returned by detect_chart_patterns
    midpoint,       \* midpoint_angle: returned value, in half degrees
    chart1,         \* chart1_positions; for transits, natal_positions
    chart2,         \* chart2_positions; for transits, current
    synastry,       \* the dict returned by compute_synastry_aspects
    transit,        \* the dict returned by transits
    rate,           \* return finder: motion of the body, units per tick
    root,           \* return finder: the instant r of the return
    low,            \* return finder: lower end of the bracket
    high,           \* return finder: upper end of the bracket
    mid,            \* return finder: the last midpoint
    dmid,           \* return finder: d, the signed difference at mid
    evals,          \* return finder: evaluations of the longitude so far
    returned,       \* return finder: the value returned
    node,           \* compute_body_info: node_type
    primaryFails,   \* bodies for which swe.calc_ut raises swe.Error
    secondaryFails, \* bodies for which the Horizons query raises
    bodyIdx,        \* compute_body_info: place of the loop in planets
    bodyInfo,       \* compute_body_info: the dict info, in order
    queries,        \* queries made: <<"primary" or Horizons command, body>>
    outcome,        \* compute_body_info: "returned" or "raised" at its end
    dignities,      \* the dict returned by compute_dignities, in order
    sun,            \* electional_days: natal_positions['Sun']
    moonAt,         \* the longitude of the Moon at each tick
    scanOrb,        \* electional_days: orb
    end_jd,         \* electional_days: end_jd, in ticks from start_jd
    step,           \* electional_days: step, in quarters of a tick
    jd,             \* electional_days: the instant of the next sample
    days,           \* electional_days: the list days
    samples,        \* the instants given to compute_positions, in order
    max_minor,      \* filter_aspects_for_wheel: max_minor
    wheel,          \* the list returned by filter_aspects_for_wheel
    asc,            \* compute_aspects_to_angles: asc
    mc,             \* compute_aspects_to_angles: mc
    angle_aspects,  \* the list returned by compute_aspects_to_angles
    charts,         \* charts.json: the 'file' of each entry, in order
    pngs            \* the names of the PNG files in CHARTS_DIR

vars == <<pc, lon1, lon2, diff, longitude, cusps, house, positions,
          aspects, patterns, midpoint, chart1, chart2, synastry, transit,
          rate, root, low, high, mid, dmid, evals, returned, node,
          primaryFails, secondaryFails, bodyIdx, bodyInfo, queries,
          outcome, dignities, sun, moonAt, scanOrb, end_jd, step, jd, days,
          samples, max_minor, wheel, asc, mc, angle_aspects, charts, pngs>>

geoVars == <<lon1, lon2, diff>>
houseVars == <<longitude, cusps, house>>
chartVars == <<positions, aspects, patterns>>
midVars == <<midpoint>>
synVars == <<chart1, chart2, synastry, transit>>
returnVars == <<rate, root, low, high, mid, dmid, evals, returned>>
infoVars == <<node, primaryFails, secondaryFails, bodyIdx, bodyInfo,
               queries, outcome>>
dignityVars == <<dignities>>
electionVars == <<sun, moonAt, scanOrb, end_jd, step, jd, days, samples>>
wheelVars == <<max_minor, wheel>>
angleVars == <<asc, mc, angle_aspects>>
storeVars == <<charts, pngs>>

\* A specification calls the functions of the groups of variables it names;
\* the variables of every other group keep the values given here.
Idle(active) ==
    /\ IF "geo" \in active THEN TRUE
       ELSE lon1 = 0 /\ lon2 = 0 /\ diff = 0
    /\ IF "house" \in active THEN TRUE
       ELSE longitude = 0 /\ cusps = <<>> /\ house = 0
    /\ IF "chart" \in active THEN TRUE
       ELSE positions = <<>> /\ aspects = <<>> /\ patterns = <<>>
    /\ IF "mid" \in active THEN TRUE
       ELSE midpoint = 0
    /\ IF "syn" \in active THEN TRUE
       ELSE chart1 = <<>> /\ chart2 = <<>> /\ synastry = <<>> /\
            transit = <<>>
    /\ IF "return" \in active THEN TRUE
       ELSE rate = 0 /\ root = 0 /\ low = 0 /\ high = 0 /\ mid = 0 /\
            dmid = 0 /\ evals = 0 /\ returned = <<>>
    /\ IF "info" \in active THEN TRUE
       ELSE node = "" /\ primaryFails = {} /\ secondaryFails = {} /\
            bodyIdx = 0 /\ bodyInfo = <<>> /\ queries = <<>> /\
            outcome = ""
    /\ IF "dignity" \in active THEN TRUE
       ELSE dignities = <<>>
    /\ IF "election" \in active THEN TRUE
       ELSE sun = 0 /\ moonAt = <<>> /\ scanOrb = 0 /\ end_jd = 0 /\
            step = 0 /\ jd = 0 /\ days = <<>> /\ samples = <<>>
    /\ IF "wheel" \in active THEN TRUE
       ELSE max_minor = 0 /\ wheel = <<>>
    /\ IF "angle" \in active THEN TRUE
       ELSE asc = 0 /\ mc = 0 /\ angle_aspects = <<>>
    /\ IF "store" \in active THEN TRUE
       ELSE charts = <<>> /\ pngs = {}

Abs(x) == IF x < 0 THEN -x ELSE x

(***************************************************************************)
(* Bounds of the model.                                                    *)
(***************************************************************************)
\* Longitudes outside [0,360) handed to angular_distance reach this many
\* full turns below 0 and above 360.
MaxTurns == 1
\* A chart drawn from LonGrid holds at most this many bodies.
MaxBodies == 4

(***************************************************************************)
(* angular_distance (src/app.py:460-465)                                   *)
(***************************************************************************)
\* A plausible slip: the fold of the reflex angle is left out.
angular_distance_nofold(a, b) == Abs(a - b) % 360

angular_distance(a, b) ==
    LET d == Abs(a - b) % 360
    IN  IF d > 180 THEN 360 - d ELSE d

\* Arguments of angular_distance: every whole longitude of the circle, and
\* values up to MaxTurns turns outside it.
InCircle == 0 .. 359
OffCircle ==
    UNION { {-360 * t, -360 * t + 1, -360 * t + 179, -360 * t + 180,
             -360 * t + 181, -360 * t + 359,
             360 * t, 360 * t + 1, 360 * t + 179, 360 * t + 180,
             360 * t + 181, 360 * t + 359} : t \in 1 .. MaxTurns }

InitGeometry ==
    /\ Idle({"geo"})
    /\ pc = "start"
    /\ \/ lon1 \in InCircle /\ lon2 \in InCircle
       \/ lon1 \in OffCircle /\ lon2 \in InCircle \cup OffCircle
       \/ lon1 \in InCircle /\ lon2 \in OffCircle
    /\ diff = 0

AngularDistance ==
    /\ pc = "start"
    /\ diff' = angular_distance(lon1, lon2)
    /\ pc' = "done"
    /\ UNCHANGED <<lon1, lon2>>

(***************************************************************************)
(* house_for (src/app.py:250-262)                                          *)
(***************************************************************************)
\* A plausible slip: the interval is closed at its end and open at its start.
HouseInterval_closedEnd(lon, c, i) ==
    LET start == c[i + 1]
        end0  == c[((i + 1) % 12) + 1]
        end   == IF end0 < start THEN end0 + 360 ELSE end0
        l     == IF lon < start THEN lon + 360 ELSE lon
    IN  start < l /\ l <= end

\* The test of one iteration of the loop, i in 0..11 (cusps is 1-based here).
HouseInterval(lon, c, i) ==
    LET start == c[i + 1]
        end0  == c[((i + 1) % 12) + 1]
        end   == IF end0 < start THEN end0 + 360 ELSE end0
        l     == IF lon < start THEN lon + 360 ELSE lon
    IN  start <= l /\ l < end

RECURSIVE HouseScan(_, _, _)
HouseScan(lon, c, i) ==
    IF i >= 12 THEN 0
    ELSE IF HouseInterval(lon, c, i) THEN i + 1
    ELSE HouseScan(lon, c, i + 1)

\* 0 stands for "no interval matched"; house_for then returns 12.
house_for(lon, c) ==
    LET h == HouseScan(lon, c, 0)
    IN  IF h = 0 THEN 12 ELSE h

\* Well-formed cusps: a first cusp and twelve positive arcs that sum to 360.
FirstCusps == {f \in 0 .. 359 : f % 9 = 0 \/ f % 90 = 1 \/ f = 359}
EqualArcs == [i \in 1 .. 12 |-> 30]
UnequalArcs == <<20, 25, 45, 45, 25, 20, 20, 25, 45, 45, 25, 20>>
LateArcs == <<1, 1, 1, 1, 1, 1, 1, 1, 1, 1, 1, 349>>

RECURSIVE ArcSum(_, _)
ArcSum(arcs, n) == IF n = 0 THEN 0 ELSE arcs[n] + ArcSum(arcs, n - 1)

CuspsFrom(first, arcs) ==
    [i \in 1 .. 12 |-> (first + ArcSum(arcs, i - 1)) % 360]

InitHouse ==
    /\ Idle({"house"})
    /\ pc = "start"
    /\ longitude \in InCircle
    /\ \E first \in FirstCusps, arcs \in {EqualArcs, UnequalArcs, LateArcs} :
           cusps = CuspsFrom(first, arcs)
    /\ house = 0

HouseFor ==
    /\ pc = "start"
    /\ house' = house_for(longitude, cusps)
    /\ pc' = "done"
    /\ UNCHANGED <<longitude, cusps>>

(***************************************************************************)
(* ASPECTS_INFO (src/app.py:161-217), in the order of the dict.            *)
(***************************************************************************)
ASPECTS_INFO ==
    << [name |-> "Conjunction",    angle |-> 0,   orb |-> 8, type |-> "major"],
       [name |-> "Opposition",     angle |-> 180, orb |-> 8, type |-> "major"],
       [name |-> "Square",         angle |-> 90,  orb |-> 6, type |-> "major"],
       [name |-> "Trine",          angle |-> 120, orb |-> 6, type |-> "major"],
       [name |-> "Sextile",        angle |-> 60,  orb |-> 4, type |-> "major"],
       [name |-> "Quincunx",       angle |-> 150, orb |-> 3, type |-> "minor"],
       [name |-> "Semi-sextile",   angle |-> 30,  orb |-> 2, type |-> "minor"],
       [name |-> "Semi-square",    angle |-> 45,  orb |-> 2, type |-> "minor"],
       [name |-> "Sesquiquadrate", angle |-> 135, orb |-> 2, type |-> "minor"] >>

NumAspectDefs == Len(ASPECTS_INFO)

\* ASPECTS_INFO[name]
InfoOf(name) ==
    ASPECTS_INFO[CHOOSE k \in 1 .. NumAspectDefs : ASPECTS_INFO[k].name = name]

(***************************************************************************)
(* compute_aspects (src/app.py:468-497)                                    *)
(***************************************************************************)
\* A plausible slip: the absolute value is left out.
AspectOrb_signed(d, info) == d - info.angle

\* abs(diff - info['angle'])
AspectOrb(d, info) == Abs(d - info.angle)

\* max(0.0, 1 - orb / info['orb']) as the exact fraction <<n, d>>, d > 0.
AspectStrength(orb, info) ==
    << IF info.orb - orb < 0 THEN 0 ELSE info.orb - orb, info.orb >>

\* Comparison of two strengths, as fractions with positive denominators.
StrengthLess(s, t) == s[1] * t[2] < t[1] * s[2]
StrengthEq(s, t) == s[1] * t[2] = t[1] * s[2]

\* 'exact' if orb <= 0.5, 'close' if orb <= 1.0, else ''.
Importance(orb) ==
    IF 2 * orb <= 1 THEN "exact" ELSE IF orb <= 1 THEN "close" ELSE ""

\* The dict appended for body pair (i, j) and definition number k.
AspectRecord(pos, i, j, k) ==
    LET info == ASPECTS_INFO[k]
        orb  == AspectOrb(angular_distance(pos[i].lon, pos[j].lon), info)
    IN  [planet1    |-> pos[i].name,
         planet2    |-> pos[j].name,
         aspect     |-> info.name,
         orb        |-> orb,
         strength   |-> AspectStrength(orb, info),
         type       |-> info.type,
         importance |-> Importance(orb)]

\* A plausible slip: the inner loop starts at 0 and skips only j = i, so
\* that each pair is examined in both orders.
DiscoveredAspects_bothOrders(pos) ==
    LET n     == Len(pos)
        K     == NumAspectDefs
        I(t)  == ((t - 1) \div (n * K)) + 1
        J(t)  == (((t - 1) \div K) % n) + 1
        D(t)  == ((t - 1) % K) + 1
        all   == [t \in 1 .. n * n * K |-> <<I(t), J(t), D(t)>>]
        Hit(x) ==
            /\ x[1] # x[2]
            /\ AspectOrb(angular_distance(pos[x[1]].lon, pos[x[2]].lon),
                         ASPECTS_INFO[x[3]]) <= ASPECTS_INFO[x[3]].orb
        hits  == SelectSeq(all, Hit)
    IN  [t \in 1 .. Len(hits) |->
            AspectRecord(pos, hits[t][1], hits[t][2], hits[t][3])]

\* The three nested loops (i, then j > i, then the definitions in table
\* order) and the test orb <= info['orb']: the list before it is sorted.
DiscoveredAspects(pos) ==
    LET n     == Len(pos)
        K     == NumAspectDefs
        I(t)  == ((t - 1) \div (n * K)) + 1
        J(t)  == (((t - 1) \div K) % n) + 1
        D(t)  == ((t - 1) % K) + 1
        all   == [t \in 1 .. n * n * K |-> <<I(t), J(t), D(t)>>]
        Hit(x) ==
            /\ x[1] < x[2]
            /\ AspectOrb(angular_distance(pos[x[1]].lon, pos[x[2]].lon),
                         ASPECTS_INFO[x[3]]) <= ASPECTS_INFO[x[3]].orb
        hits  == SelectSeq(all, Hit)
    IN  [t \in 1 .. Len(hits) |->
            AspectRecord(pos, hits[t][1], hits[t][2], hits[t][3])]

\* A plausible slip: an ascending sort followed by reverse(), which turns
\* the order of equally strong aspects around.
InsertByStrength_reversed(sorted, a) ==
    LET before == SelectSeq(sorted,
                      LAMBDA e : StrengthLess(a.strength, e.strength))
        after  == SelectSeq(sorted,
                      LAMBDA e : ~StrengthLess(a.strength, e.strength))
    IN  before \o <<a>> \o after

\* Insertion of a into a list sorted by decreasing strength, behind every
\* element at least as strong: list.sort(key=strength, reverse=True) is stable.
InsertByStrength(sorted, a) ==
    LET before == SelectSeq(sorted,
                      LAMBDA e : ~StrengthLess(e.strength, a.strength))
        after  == SelectSeq(sorted,
                      LAMBDA e : StrengthLess(e.strength, a.strength))
    IN  before \o <<a>> \o after

RECURSIVE SortByStrength(_, _)
SortByStrength(list, n) ==
    IF n = 0 THEN <<>>
    ELSE InsertByStrength(SortByStrength(list, n - 1), list[n])

compute_aspects(pos) ==
    LET found == DiscoveredAspects(pos)
    IN  SortByStrength(found, Len(found))

\* Body names, in the order the charts insert them (the order of the tests).
BodyPool == <<"Sun", "Jupiter", "Mars", "Saturn", "Mercury", "Venus">>

\* Longitudes of the test scenarios and values next to the orb limits: a
\* cluster in one sign with the squares and the opposition to it, and the
\* exact aspect angles.
ClusterGrid == {0, 5, 7, 13, 84, 90, 180}
AngleGrid == {0, 60, 90, 120, 180, 210, 240}
LonGrid == ClusterGrid \cup AngleGrid

\* The charts of n bodies: the first n names of the pool, at any longitudes
\* of the set lons.
Charts(n, lons) ==
    { [i \in 1 .. n |-> [name |-> BodyPool[i], lon |-> f[i]]] :
        f \in [1 .. n -> lons] }

InitAspects ==
    /\ Idle({"chart"})
    /\ pc = "start"
    /\ \/ positions \in Charts(2, InCircle)
       \/ \E n \in 0 .. MaxBodies :
             /\ n <= Len(BodyPool)
             /\ positions \in Charts(n, LonGrid)
    /\ aspects = <<>>
    /\ patterns = <<>>

ComputeAspects ==
    /\ pc = "start"
    /\ aspects' = compute_aspects(positions)
    /\ pc' = "aspects"
    /\ UNCHANGED <<positions, patterns>>

(***************************************************************************)
(* Names, signs and tuple order used by detect_chart_patterns.             *)
(***************************************************************************)
ZODIAC_SIGNS ==
    << "Aries", "Taurus", "Gemini", "Cancer", "Leo", "Virgo", "Libra",
       "Scorpio", "Sagittarius", "Capricorn", "Aquarius", "Pisces" >>

MODALITY_SIGNS ==
    << [mode |-> "Cardinal", signs |-> {"Aries", "Cancer", "Libra", "Capricorn"}],
       [mode |-> "Fixed", signs |-> {"Taurus", "Leo", "Scorpio", "Aquarius"}],
       [mode |-> "Mutable",
        signs |-> {"Gemini", "Virgo", "Sagittarius", "Pisces"}] >>

\* ZODIAC_SIGNS[int(lon // 30) % 12]
SignOf(lon) == ZODIAC_SIGNS[((lon \div 30) % 12) + 1]

\* next((m for m, signs in MODALITY_SIGNS.items() if sign in signs), None)
ModeOf(sign) ==
    LET hits == SelectSeq(MODALITY_SIGNS, LAMBDA m : sign \in m.signs)
    IN  IF hits = <<>> THEN "None" ELSE hits[1].mode

\* Python's order on str, for the names of the pool.
SortedNames == <<"Jupiter", "Mars", "Mercury", "Saturn", "Sun", "Venus">>
NameRank(n) == CHOOSE i \in 1 .. Len(SortedNames) : SortedNames[i] = n
NameLess(a, b) == NameRank(a) < NameRank(b)

\* sorted(list) for a list of names.
RECURSIVE SortNames(_)
SortNames(list) ==
    IF list = <<>> THEN <<>>
    ELSE LET h    == Head(list)
             rest == SortNames(Tail(list))
         IN  SelectSeq(rest, LAMBDA x : NameLess(x, h)) \o <<h>>
                 \o SelectSeq(rest, LAMBDA x : ~NameLess(x, h))

\* Python's order on tuples of names: s < t.
TupleLess(s, t) ==
    \E k \in 1 .. Len(t) :
        /\ k <= Len(s) + 1
        /\ \A m \in 1 .. k - 1 : s[m] = t[m]
        /\ k = Len(s) + 1 \/ NameLess(s[k], t[k])

\* sorted(set) for a set of tuples of names.
RECURSIVE SortTuples(_)
SortTuples(S) ==
    IF S = {} THEN <<>>
    ELSE LET m == CHOOSE x \in S : \A y \in S : x = y \/ TupleLess(x, y)
         IN  <<m>> \o SortTuples(S \ {m})

Range(f) == {f[x] : x \in DOMAIN f}

(***************************************************************************)
(* detect_chart_patterns (src/app.py:554-671)                              *)
(***************************************************************************)
\* The (p1, p2) of the aspects of one kind, as the first loop collects them.
AspectPairs(asps, kind) ==
    { <<asps[k].planet1, asps[k].planet2>> :
        k \in {k \in 1 .. Len(asps) : asps[k].aspect = kind} }

\* bodies.update([p1, p2])
BodiesOf(asps) ==
    {asps[k].planet1 : k \in 1 .. Len(asps)}
        \cup {asps[k].planet2 : k \in 1 .. Len(asps)}

\* trines.get(b, set()), square_map.get(b, set()), quincunx.get(b, set()):
\* the adjacency both setdefault(...).add(...) lines build.
Neighbours(asps, kind, b) ==
    {q[2] : q \in {r \in AspectPairs(asps, kind) : r[1] = b}}
        \cup {q[1] : q \in {r \in AspectPairs(asps, kind) : r[2] = b}}

\* sextiles, and opposition_set: sets of frozensets.
PairSets(asps, kind) == { {q[1], q[2]} : q \in AspectPairs(asps, kind) }

\* A plausible slip: the third edge, c in trines[b], is not tested.
GrandTrines_twoEdges(asps) ==
    LET T(b) == Neighbours(asps, "Trine", b)
        triad_bodies == {b \in BodiesOf(asps) : T(b) # {}}
    IN  { SortNames(t) :
            t \in { u \in triad_bodies \X triad_bodies \X triad_bodies :
                      /\ NameLess(u[1], u[2]) /\ NameLess(u[2], u[3])
                      /\ u[2] \in T(u[1])
                      /\ u[3] \in T(u[1]) } }

GrandTrines(asps) ==
    LET T(b) == Neighbours(asps, "Trine", b)
        triad_bodies == {b \in BodiesOf(asps) : T(b) # {}}
    IN  { SortNames(t) :
            t \in { u \in triad_bodies \X triad_bodies \X triad_bodies :
                      /\ NameLess(u[1], u[2]) /\ NameLess(u[2], u[3])
                      /\ u[2] \in T(u[1])
                      /\ u[3] \in T(u[1])
                      /\ u[3] \in T(u[2]) } }

\* A plausible slip: the tuple is stored as found, without sorted().
TSquares_unsorted(asps) ==
    LET Sq(b) == Neighbours(asps, "Square", b)
    IN  UNION { { <<o[1], o[2], z>> : z \in Sq(o[1]) \cap Sq(o[2]) } :
                  o \in AspectPairs(asps, "Opposition") }

\* A plausible slip: | in place of &, a body square to either end qualifies.
TSquares_union(asps) ==
    LET Sq(b) == Neighbours(asps, "Square", b)
    IN  UNION { { SortNames(<<o[1], o[2], z>>) :
                    z \in (Sq(o[1]) \cup Sq(o[2])) \ {o[1], o[2]} } :
                  o \in AspectPairs(asps, "Opposition") }

TSquares(asps) ==
    LET Sq(b) == Neighbours(asps, "Square", b)
    IN  UNION { { SortNames(<<o[1], o[2], z>>) : z \in Sq(o[1]) \cap Sq(o[2]) } :
                  o \in AspectPairs(asps, "Opposition") }

LonOf(pos, body) == pos[CHOOSE i \in 1 .. Len(pos) : pos[i].name = body].lon

\* modes[0] if modes.count(modes[0]) == 3 else None
TSquareEmphasis(ts, pos) ==
    LET modes == [k \in 1 .. Len(ts) |-> ModeOf(SignOf(LonOf(pos, ts[k])))]
    IN  IF Cardinality({k \in 1 .. Len(modes) : modes[k] = modes[1]}) = 3
        THEN modes[1] ELSE "None"

\* t_square_info.get(ts): filled only under "if positions:".
TSquareType(ts, pos) ==
    IF pos # <<>> THEN TSquareEmphasis(ts, pos) ELSE "None"

\* A plausible slip: only the first of the two remaining vertices is tested
\* for a sextile.
Kites_oneSextile(asps) ==
    LET opposition_set == PairSets(asps, "Opposition")
        sextiles       == PairSets(asps, "Sextile")
        Rem(tri, p)    == SelectSeq(tri, LAMBDA x : x # p)
        IsKite(tri, d) ==
            \E k \in 1 .. Len(tri) :
                /\ {d, tri[k]} \in opposition_set
                /\ {d, Rem(tri, tri[k])[1]} \in sextiles
    IN  UNION { { SortNames(<<d>> \o tri) :
                    d \in {e \in BodiesOf(asps) \ Range(tri) : IsKite(tri, e)} } :
                  tri \in GrandTrines(asps) }

Kites(asps) ==
    LET opposition_set == PairSets(asps, "Opposition")
        sextiles       == PairSets(asps, "Sextile")
        Rem(tri, p)    == SelectSeq(tri, LAMBDA x : x # p)
        IsKite(tri, d) ==
            \E k \in 1 .. Len(tri) :
                /\ {d, tri[k]} \in opposition_set
                /\ {d, Rem(tri, tri[k])[1]} \in sextiles
                /\ {d, Rem(tri, tri[k])[2]} \in sextiles
    IN  UNION { { SortNames(<<d>> \o tri) :
                    d \in {e \in BodiesOf(asps) \ Range(tri) : IsKite(tri, e)} } :
                  tri \in GrandTrines(asps) }

\* A plausible slip: c is taken from the quincunxes of a alone.
Yods_oneQuincunx(asps) ==
    LET Q(b) == Neighbours(asps, "Quincunx", b)
    IN  UNION { { SortNames(<<q[1], q[2], c>>) : c \in Q(q[1]) \ {q[2]} } :
                  q \in AspectPairs(asps, "Sextile") }

Yods(asps) ==
    LET Q(b) == Neighbours(asps, "Quincunx", b)
    IN  UNION { { SortNames(<<q[1], q[2], c>>) : c \in Q(q[1]) \cap Q(q[2]) } :
                  q \in AspectPairs(asps, "Sextile") }

\* sign_groups[idx]: (body, deg_in_sign) in the order of positions.
SignGroup(pos, idx) ==
    LET mine == SelectSeq(pos, LAMBDA e : (e.lon \div 30) % 12 = idx)
    IN  [k \in 1 .. Len(mine) |->
            [body |-> mine[k].name, deg |-> mine[k].lon % 30]]

\* items.sort(key=lambda t: t[1]): stable, ascending.
RECURSIVE SortByDegree(_, _)
SortByDegree(items, n) ==
    IF n = 0 THEN <<>>
    ELSE LET a    == items[n]
             rest == SortByDegree(items, n - 1)
         IN  SelectSeq(rest, LAMBDA e : e.deg <= a.deg) \o <<a>>
                 \o SelectSeq(rest, LAMBDA e : e.deg > a.deg)

\* A plausible slip: the window closes before a body exactly 8 degrees on.
RECURSIVE WindowEnd_strict(_, _, _)
WindowEnd_strict(items, i, j) ==
    IF j <= Len(items) /\ items[j].deg - items[i].deg < 8
    THEN WindowEnd_strict(items, i, j + 1) ELSE j

\* The while loop: the first j (1-based) at which the window from i stops.
RECURSIVE WindowEnd(_, _, _)
WindowEnd(items, i, j) ==
    IF j <= Len(items) /\ items[j].deg - items[i].deg <= 8
    THEN WindowEnd(items, i, j + 1) ELSE j

\* The loop over i for one sign: records appended unless already present.
RECURSIVE SignStelliums(_, _, _, _)
SignStelliums(found, items, idx, i) ==
    IF i > Len(items) THEN found
    ELSE LET j      == WindowEnd(items, i, i)
             record == [sign    |-> ZODIAC_SIGNS[idx + 1],
                        planets |-> SortNames([k \in 1 .. j - i |->
                                                  items[i + k - 1].body])]
             next   == IF j - i >= 3 /\ record \notin Range(found)
                       THEN Append(found, record) ELSE found
         IN  SignStelliums(next, items, idx, i + 1)

RECURSIVE StelliumsFrom(_, _, _)
StelliumsFrom(found, pos, idx) ==
    IF idx > 11 THEN found
    ELSE LET items == SignGroup(pos, idx)
             next  == IF Len(items) < 3 THEN found
                      ELSE SignStelliums(found,
                               SortByDegree(items, Len(items)), idx, 1)
         IN  StelliumsFrom(next, pos, idx + 1)

\* "if positions:" is false for None and for an empty dict alike; both are
\* the empty chart here.
Stelliums(pos) == IF pos # <<>> THEN StelliumsFrom(<<>>, pos, 0) ELSE <<>>

\* positions, when given, names every body of the aspect list (the chart the
\* aspects were computed from): positions[body] raises KeyError otherwise.
detect_chart_patterns(asps, pos) ==
    LET ts == SortTuples(TSquares(asps))
    IN  [grand_trines |-> SortTuples(GrandTrines(asps)),
         t_squares    |-> [k \in 1 .. Len(ts) |->
                              [planets |-> ts[k],
                               type    |-> TSquareType(ts[k], pos)]],
         kites        |-> SortTuples(Kites(asps)),
         yods         |-> SortTuples(Yods(asps)),
         stelliums    |-> Stelliums(pos)]

\* An aspect list given from outside: over the first four bodies of the
\* pool, each of the six pairs carries at most one aspect, of the kinds one
\* detector reads (Grand Trine and Kite: Trine, Opposition, Sextile;
\* T-square: Opposition, Square; Yod: Sextile, Quincunx); the list runs
\* through the pairs in enumeration order, or backwards with planet1 and
\* planet2 exchanged, or holds every aspect twice, once each way.
GraphBodies == SubSeq(BodyPool, 1, 4)
GraphPairs ==
    << <<1, 2>>, <<1, 3>>, <<1, 4>>, <<2, 3>>, <<2, 4>>, <<3, 4>> >>
KindFamilies ==
    { {"Trine", "Opposition", "Sextile"},
      {"Opposition", "Square"},
      {"Sextile", "Quincunx"} }

GivenAspect(p1, p2, kind) ==
    [planet1    |-> p1,
     planet2    |-> p2,
     aspect     |-> kind,
     orb        |-> 0,
     strength   |-> <<InfoOf(kind).orb, InfoOf(kind).orb>>,
     type       |-> InfoOf(kind).type,
     importance |-> "exact"]

GraphAspects(label, order) ==
    LET used == SelectSeq([k \in 1 .. Len(GraphPairs) |-> k],
                          LAMBDA k : label[k] # "none")
        n    == Len(used)
        forward ==
            [t \in 1 .. n |->
                GivenAspect(GraphBodies[GraphPairs[used[t]][1]],
                            GraphBodies[GraphPairs[used[t]][2]],
                            label[used[t]])]
        backward ==
            [t \in 1 .. n |->
                GivenAspect(GraphBodies[GraphPairs[used[n + 1 - t]][2]],
                            GraphBodies[GraphPairs[used[n + 1 - t]][1]],
                            label[used[n + 1 - t]])]
    IN  CASE order = "forward"  -> forward
          [] order = "backward" -> backward
          [] order = "both"     -> forward \o backward

\* Either a chart whose aspects are still to be computed, or a given aspect
\* list with no positions.
InitPatterns ==
    /\ Idle({"chart"})
    /\ \/ /\ pc = "start"
          /\ \E n \in 0 .. MaxBodies :
                /\ n <= Len(BodyPool)
                /\ positions \in Charts(n, ClusterGrid) \cup Charts(n, AngleGrid)
          /\ aspects = <<>>
          /\ patterns = <<>>
       \/ /\ pc = "aspects"
          /\ positions = <<>>
          /\ \E kinds \in KindFamilies :
                \E label \in [1 .. Len(GraphPairs) -> kinds \cup {"none"}],
                   order \in {"forward", "backward", "both"} :
                   aspects = GraphAspects(label, order)
          /\ patterns = <<>>

DetectChartPatterns ==
    /\ pc = "aspects"
    /\ patterns' = detect_chart_patterns(aspects, positions)
    /\ pc' = "done"
    /\ UNCHANGED <<positions, aspects>>

(***************************************************************************)
(* midpoint_angle (src/app.py:517-521), local to compute_synastry_aspects. *)
(* The half of a sum of whole degrees may end in .5, so the value is kept  *)
(* in half degrees: ((x / 2) % 360) is (x % 720) half degrees.             *)
(***************************************************************************)
\* A plausible slip: the plain average, without the branch for the far arc.
midpoint_angle_naive(a, b) == (a + b) % 720

midpoint_angle(a, b) ==
    IF Abs(a - b) <= 180 THEN (a + b) % 720 ELSE (a + b + 360) % 720

InitMidpoint ==
    /\ Idle({"geo", "mid"})
    /\ pc = "start"
    /\ lon1 \in InCircle
    /\ lon2 \in InCircle
    /\ diff = 0
    /\ midpoint = 0

MidpointAngle ==
    /\ pc = "start"
    /\ midpoint' = midpoint_angle(lon1, lon2)
    /\ pc' = "done"
    /\ UNCHANGED <<lon1, lon2, diff>>

(***************************************************************************)
(* compute_synastry_aspects (src/app.py:514-551) and transits              *)
(* (src/app.py:746-759).  A tagged name f"1_{k}" is the pair <<"1_", k>>:  *)
(* startswith reads its first part and [2:] returns its second.            *)
(***************************************************************************)
\* {f"{prefix}{k}": v for k, v in chart.items()}
Tagged(prefix, chart) ==
    [i \in 1 .. Len(chart) |->
        [name |-> <<prefix, chart[i].name>>, lon |-> chart[i].lon]]

\* pref1 | pref2: the keys differ by their prefixes, so the entries of the
\* first dict are followed by those of the second.
Combined(p, chart, q, other) == Tagged(p, chart) \o Tagged(q, other)

StartsWith(name, prefix) == name[1] = prefix
Untagged(name) == name[2]

\* A plausible slip: the filter keeps the pairs of one origin.
CrossAspects_sameOrigin(asps, p, q) ==
    LET keep == SelectSeq(asps, LAMBDA a :
                    \/ StartsWith(a.planet1, p) /\ StartsWith(a.planet2, p)
                    \/ StartsWith(a.planet1, q) /\ StartsWith(a.planet2, q))
    IN  [k \in 1 .. Len(keep) |->
            [keep[k] EXCEPT !.planet1 = Untagged(keep[k].planet1),
                            !.planet2 = Untagged(keep[k].planet2)]]

\* The list comprehension "cross": the aspects whose two names carry
\* different prefixes, with the prefixes cut off.
CrossAspects(asps, p, q) ==
    LET keep == SelectSeq(asps, LAMBDA a :
                    \/ StartsWith(a.planet1, p) /\ StartsWith(a.planet2, q)
                    \/ StartsWith(a.planet1, q) /\ StartsWith(a.planet2, p))
    IN  [k \in 1 .. Len(keep) |->
            [keep[k] EXCEPT !.planet1 = Untagged(keep[k].planet1),
                            !.planet2 = Untagged(keep[k].planet2)]]

NamesOf(chart) == {chart[i].name : i \in 1 .. Len(chart)}

\* bodies = chart1_positions.keys() & chart2_positions.keys() is a set of
\* str: the order in which the dict comprehension walks it is the order of
\* the hash table, which the language leaves open.
Orders(S) == {s \in [1 .. Cardinality(S) -> S] : Range(s) = S}

\* composite, for bodies walked in the given order.  The charts of the
\* model hold even degrees, so every midpoint is a whole number of degrees
\* and the halving of the half degrees is exact.
CompositePositions(chart, other, order) ==
    [k \in 1 .. Len(order) |->
        [name |-> order[k],
         lon  |-> midpoint_angle(LonOf(chart, order[k]),
                                 LonOf(other, order[k])) \div 2]]

\* A plausible slip: the guard asks for more than two bodies.
AspectsIfSeveral_three(pos) ==
    IF Len(pos) > 2 THEN compute_aspects(pos) ELSE <<>>

\* compute_aspects(composite) if len(composite) > 1 else []
AspectsIfSeveral(pos) ==
    IF Len(pos) > 1 THEN compute_aspects(pos) ELSE <<>>

compute_synastry_aspects(chart, other, order) ==
    LET composite == CompositePositions(chart, other, order)
        davison   == composite
    IN  [cross_aspects |->
             CrossAspects(compute_aspects(Combined("1_", chart, "2_", other)),
                          "1_", "2_"),
         composite_positions |-> composite,
         composite_aspects   |-> AspectsIfSeveral(composite),
         davison_positions   |-> davison,
         davison_aspects     |-> AspectsIfSeveral(davison)]

\* transits: current is what compute_positions(target_jd) returned.
transits(natal, current) ==
    [positions |-> current,
     aspects   |->
         CrossAspects(compute_aspects(Combined("n_", natal, "t_", current)),
                      "n_", "t_")]

\* The two charts of a call: the first holds the first n1 names of SynPool,
\* the second the last n2 names in reverse order, so that a body can be in
\* one chart, in the other, or in both; longitudes are even degrees.
SynPool == <<"Sun", "Jupiter", "Mars">>
SynGrid == {0, 90, 180, 354}

FirstCharts ==
    UNION { { [i \in 1 .. n |-> [name |-> SynPool[i], lon |-> f[i]]] :
                f \in [1 .. n -> SynGrid] } : n \in 0 .. Len(SynPool) }
SecondCharts ==
    UNION { { [i \in 1 .. n |->
                 [name |-> SynPool[Len(SynPool) + 1 - i], lon |-> f[i]]] :
                f \in [1 .. n -> SynGrid] } : n \in 0 .. Len(SynPool) }

InitSynastry ==
    /\ Idle({"syn"})
    /\ pc = "start"
    /\ chart1 \in FirstCharts
    /\ chart2 \in SecondCharts
    /\ synastry = <<>>
    /\ transit = <<>>

ComputeSynastryAspects ==
    /\ pc = "start"
    /\ \E order \in Orders(NamesOf(chart1) \cap NamesOf(chart2)) :
          synastry' = compute_synastry_aspects(chart1, chart2, order)
    /\ pc' = "done"
    /\ UNCHANGED <<chart1, chart2, transit>>

\* chart1 is natal_positions, chart2 the positions of the target day.
Transits ==
    /\ pc = "start"
    /\ transit' = transits(chart1, chart2)
    /\ pc' = "transits"
    /\ UNCHANGED <<chart1, chart2, synastry>>

(***************************************************************************)
(* solar_return_jd and lunar_return_jd (src/app.py:700-743): the same      *)
(* bisection over a bracket of 10 days (Sun) or 4 days (Moon).             *)
(*                                                                         *)
(* Time is counted in ticks from the lower end of the initial bracket, and *)
(* the bracket is Bracket ticks wide, so that each of the 20 midpoints is  *)
(* a whole number of ticks and the instant r at which the body is back at  *)
(* its natal longitude can lie between two candidates of the last          *)
(* iteration.  Differences of longitude are counted in units of 2.5e-8     *)
(* degree.  What compute_positions returns is the ephemeris: within the    *)
(* bracket the body moves forward by its daily motion, a whole number of   *)
(* units per tick.  The body stays within a few degrees of the natal       *)
(* longitude there, where ((x + 180) % 360) - 180 is x.                    *)
(***************************************************************************)
\* for _ in range(20)
Iterations == 20
\* high - low before the loop, in ticks
Bracket == 10 * 2^21
\* tol = 1e-5 degree, in units
Tol == 400
\* The daily motions of the Sun (about 1 degree a day) and of the Moon (12
\* to 15 degrees a day), in units per tick.
BodyRates == [Sun |-> {19}, Moon |-> {90, 100, 117}]

\* The instants r of the return: around the ends of the bracket, around
\* its middle, and around an instant that no early midpoint comes near.
Roots ==
    { c + e : c \in {25, Bracket \div 2, 7000010, Bracket - 25},
              e \in -25 .. 25 }

\* diff(jd): the signed difference of the body's longitude from the natal
\* longitude at the instant t.
LongitudeDiff(t) == rate * (t - root)

\* A plausible slip: the two ends of the bracket are exchanged.
NarrowedBracket_swapped(lo, hi, m, dv) ==
    IF dv > 0 THEN <<m, hi>> ELSE <<lo, m>>

\* if d > 0: high = mid, else: low = mid
NarrowedBracket(lo, hi, m, dv) ==
    IF dv > 0 THEN <<lo, m>> ELSE <<m, hi>>

\* The state on entry to the loop.
InitReturn ==
    /\ Idle({"return"})
    /\ pc = "loop"
    /\ \E body \in DOMAIN BodyRates : rate \in BodyRates[body]
    /\ root \in Roots
    /\ low = 0
    /\ high = Bracket
    /\ mid = 0
    /\ dmid = 0
    /\ evals = 0
    /\ returned = <<>>

\* One pass of the loop body.  The function returns the instant alone.
Bisect ==
    /\ pc = "loop"
    /\ evals < Iterations
    /\ LET m  == (low + high) \div 2
           dv == LongitudeDiff(m)
       IN  /\ mid' = m
           /\ dmid' = dv
           /\ evals' = evals + 1
           /\ IF Abs(dv) < Tol
              THEN /\ returned' = [jd |-> m]
                   /\ pc' = "done"
                   /\ UNCHANGED <<low, high>>
              ELSE /\ low' = NarrowedBracket(low, high, m, dv)[1]
                   /\ high' = NarrowedBracket(low, high, m, dv)[2]
                   /\ UNCHANGED <<returned, pc>>
    /\ UNCHANGED <<rate, root>>

\* The loop is used up: "return mid" behind it.
ReturnLastMidpoint ==
    /\ pc = "loop"
    /\ evals = Iterations
    /\ returned' = [jd |-> mid]
    /\ pc' = "done"
    /\ UNCHANGED <<rate, root, low, high, mid, dmid, evals>>

(***************************************************************************)
(* compute_body_info (src/app.py:350-389).  The two sources are outside    *)
(* the program: for each call the model draws the bodies for which         *)
(* swe.calc_ut raises swe.Error and the bodies for which the Horizons      *)
(* query raises.  The values (longitude, speed) play no part in which      *)
(* entries the map gets; an entry records the source that gave it.         *)
(***************************************************************************)
\* The most bodies for which one source fails during a call.
MaxFailures == 2

\* planets, in the order of the dict; the node is named after node_type.
Planets(node_type) ==
    << "Sun", "Moon", "Mercury", "Venus", "Mars", "Jupiter", "Saturn",
       "Uranus", "Neptune", "Pluto",
       IF node_type = "true" THEN "True Node" ELSE "Mean Node",
       "Ceres", "Pallas", "Juno", "Vesta", "Chiron", "Black Moon Lilith" >>

HORIZONS_IDS ==
    << [name |-> "Ceres", id |-> "1"], [name |-> "Pallas", id |-> "2"],
       [name |-> "Juno", id |-> "3"], [name |-> "Vesta", id |-> "4"] >>

\* A plausible slip: the branch for Chiron is missing.
HasSecondary_tableOnly(name) ==
    \E k \in 1 .. Len(HORIZONS_IDS) : HORIZONS_IDS[k].name = name

\* if name == 'Chiron': ... elif name in HORIZONS_IDS: ... else: raise
HasSecondary(name) ==
    \/ name = "Chiron"
    \/ \E k \in 1 .. Len(HORIZONS_IDS) : HORIZONS_IDS[k].name = name

\* The command sent to Horizons for a body: fetch_chiron_info asks "2060".
HorizonsCommand(name) ==
    IF name = "Chiron" THEN "2060"
    ELSE HORIZONS_IDS[CHOOSE k \in 1 .. Len(HORIZONS_IDS) :
                          HORIZONS_IDS[k].name = name].id

\* compute_positions: {name: vals[0] for name, vals in info.items()}
compute_positions(body_info) ==
    [k \in 1 .. Len(body_info) |-> body_info[k].name]

FewOf(S) == {F \in SUBSET S : Cardinality(F) <= MaxFailures}

\* On entry to the loop: info = {}.
InitBodyInfo ==
    /\ Idle({"info"})
    /\ pc = "loop"
    /\ node \in {"mean", "true"}
    /\ primaryFails \in FewOf(Range(Planets(node)))
    /\ secondaryFails \in FewOf({n \in Range(Planets(node)) : HasSecondary(n)})
    /\ bodyIdx = 1
    /\ bodyInfo = <<>>
    /\ queries = <<>>
    /\ outcome = ""

\* One pass of the loop body, for the body planets[bodyIdx].
FetchBody ==
    /\ pc = "loop"
    /\ bodyIdx <= Len(Planets(node))
    /\ LET name == Planets(node)[bodyIdx]
           asked == Append(queries, <<"primary", name>>)
       IN  IF name \notin primaryFails
           THEN /\ bodyInfo' = Append(bodyInfo, [name   |-> name,
                                                 source |-> "primary"])
                /\ queries' = asked
                /\ bodyIdx' = bodyIdx + 1
                /\ UNCHANGED <<pc, outcome>>
           ELSE IF HasSecondary(name)
           THEN /\ queries' = Append(asked, <<HorizonsCommand(name), name>>)
                /\ IF name \notin secondaryFails
                   THEN /\ bodyInfo' = Append(bodyInfo,
                                               [name   |-> name,
                                                source |-> "secondary"])
                        /\ bodyIdx' = bodyIdx + 1
                        /\ UNCHANGED <<pc, outcome>>
                   ELSE /\ outcome' = "raised"
                        /\ pc' = "done"
                        /\ UNCHANGED <<bodyInfo, bodyIdx>>
           ELSE /\ queries' = asked
                /\ outcome' = "raised"
                /\ pc' = "done"
                /\ UNCHANGED <<bodyInfo, bodyIdx>>
    /\ UNCHANGED <<node, primaryFails, secondaryFails>>

\* return info
ReturnInfo ==
    /\ pc = "loop"
    /\ bodyIdx > Len(Planets(node))
    /\ outcome' = "returned"
    /\ pc' = "done"
    /\ UNCHANGED <<node, primaryFails, secondaryFails, bodyIdx, bodyInfo,
                   queries>>

(***************************************************************************)
(* compute_dignities (src/app.py:402-457)                                  *)
(***************************************************************************)
\* ZODIAC_SIGNS[(ZODIAC_SIGNS.index(sign) + 6) % 12]
opposite_sign(sign) ==
    LET idx ==
            (CHOOSE i \in 1 .. Len(ZODIAC_SIGNS) : ZODIAC_SIGNS[i] = sign) - 1
    IN  ZODIAC_SIGNS[((idx + 6) % 12) + 1]

DOMICILE_SIGNS ==
    << [name |-> "Sun", signs |-> <<"Leo">>],
       [name |-> "Moon", signs |-> <<"Cancer">>],
       [name |-> "Mercury", signs |-> <<"Gemini", "Virgo">>],
       [name |-> "Venus", signs |-> <<"Taurus", "Libra">>],
       [name |-> "Mars", signs |-> <<"Aries", "Scorpio">>],
       [name |-> "Jupiter", signs |-> <<"Sagittarius", "Pisces">>],
       [name |-> "Saturn", signs |-> <<"Capricorn", "Aquarius">>],
       [name |-> "Uranus", signs |-> <<"Aquarius">>],
       [name |-> "Neptune", signs |-> <<"Pisces">>],
       [name |-> "Pluto", signs |-> <<"Scorpio">>] >>

EXALTATION_SIGNS ==
    << [name |-> "Sun", sign |-> "Aries"],
       [name |-> "Moon", sign |-> "Taurus"],
       [name |-> "Mercury", sign |-> "Virgo"],
       [name |-> "Venus", sign |-> "Pisces"],
       [name |-> "Mars", sign |-> "Capricorn"],
       [name |-> "Jupiter", sign |-> "Cancer"],
       [name |-> "Saturn", sign |-> "Libra"],
       [name |-> "Uranus", sign |-> "Scorpio"],
       [name |-> "Neptune", sign |-> "Leo"],
       [name |-> "Pluto", sign |-> "Aries"] >>

\* DOMICILE_SIGNS.get(name, [])
DomicileOf(name) ==
    LET rows == SelectSeq(DOMICILE_SIGNS, LAMBDA r : r.name = name)
    IN  IF rows = <<>> THEN <<>> ELSE rows[1].signs

\* EXALTATION_SIGNS.get(name); "None" when the body has no entry
ExaltationOf(name) ==
    LET rows == SelectSeq(EXALTATION_SIGNS, LAMBDA r : r.name = name)
    IN  IF rows = <<>> THEN "None" ELSE rows[1].sign

\* A plausible slip: the exaltation is looked up before the domicile.
Dignity_exaltationFirst(name, lon) ==
    LET sign    == SignOf(lon)
        dom     == DomicileOf(name)
        ex_sign == ExaltationOf(name)
    IN  IF ex_sign # "None" /\ sign = ex_sign THEN "Exaltation"
        ELSE IF ex_sign # "None" /\ opposite_sign(ex_sign) = sign THEN "Fall"
        ELSE IF \E k \in 1 .. Len(dom) : dom[k] = sign THEN "Domicile"
        ELSE IF \E k \in 1 .. Len(dom) : opposite_sign(dom[k]) = sign
             THEN "Detriment"
        ELSE ""

\* The body of the loop: the value stored in dignities[name].
Dignity(name, lon) ==
    LET sign    == SignOf(lon)
        dom     == DomicileOf(name)
        ex_sign == ExaltationOf(name)
    IN  IF \E k \in 1 .. Len(dom) : dom[k] = sign THEN "Domicile"
        ELSE IF \E k \in 1 .. Len(dom) : opposite_sign(dom[k]) = sign
             THEN "Detriment"
        ELSE IF ex_sign # "None" /\ sign = ex_sign THEN "Exaltation"
        ELSE IF ex_sign # "None" /\ opposite_sign(ex_sign) = sign THEN "Fall"
        ELSE ""

compute_dignities(pos) ==
    [k \in 1 .. Len(pos) |->
        [name |-> pos[k].name, dignity |-> Dignity(pos[k].name, pos[k].lon)]]

\* The charts handed to compute_dignities: one body at any whole longitude
\* from a sign below 0 to a sign above 360, or two different bodies at the
\* middle of any two signs; the bodies are those of the two tables and two
\* that the tables do not know.
DignityBodies ==
    {DOMICILE_SIGNS[k].name : k \in 1 .. Len(DOMICILE_SIGNS)}
        \cup {"Chiron", "Mean Node"}

InitDignities ==
    /\ Idle({"chart", "dignity"})
    /\ pc = "start"
    /\ \/ \E b \in DignityBodies, l \in -30 .. 389 :
             positions = <<[name |-> b, lon |-> l]>>
       \/ \E b, c \in DignityBodies,
             l, m \in {30 * s + 15 : s \in 0 .. 11} :
             /\ b # c
             /\ positions = << [name |-> b, lon |-> l],
                               [name |-> c, lon |-> m] >>
    /\ aspects = <<>>
    /\ patterns = <<>>
    /\ dignities = <<>>

ComputeDignities ==
    /\ pc = "start"
    /\ dignities' = compute_dignities(positions)
    /\ pc' = "done"
    /\ UNCHANGED <<positions, aspects, patterns>>

(***************************************************************************)
(* electional_days (src/app.py:762-773).  Instants are counted in ticks    *)
(* from start_jd, a tick being the spacing of the floats in the range of   *)
(* the scan: start_jd, end_jd and jd are whole ticks.  The step is a float *)
(* of its own, which may be finer: it is counted in quarters of a tick.    *)
(* moonAt[t + 1] is the longitude compute_positions gives for the Moon at  *)
(* tick t, which is the ephemeris' to choose.                              *)
(***************************************************************************)
\* The scan covers at most this many ticks.
MaxSamples == 3

\* A plausible slip: the fold that keeps +180 and leaves out -180.
SignedDifference_upper(x) == 180 - ((180 - x) % 360)

\* ((x + 180) % 360) - 180
SignedDifference(x) == ((x + 180) % 360) - 180

\* A plausible slip: a sample exactly orb away from the trine is dropped.
InOrbOfTrine_strict(moon, sun_lon, orb_deg) ==
    LET dd == Abs(SignedDifference(moon - sun_lon))
    IN  Abs(dd - 120) < orb_deg

\* diff = abs(((moon - sun + 180) % 360) - 180); abs(diff - 120) <= orb
InOrbOfTrine(moon, sun_lon, orb_deg) ==
    LET dd == Abs(SignedDifference(moon - sun_lon))
    IN  Abs(dd - 120) <= orb_deg

\* Longitudes of the Moon around the two trines of a Sun at s, and away
\* from them.
MoonGrid(s) ==
    {(s + x) % 360 : x \in {0, 119, 120, 122, 180, 238, 240, 241}}

\* A plausible slip: the scan stops before end_jd.
StillInRange_open(t, last) == t < last

\* while jd <= end_jd
StillInRange(t, last) == t <= last

\* jd + step in float arithmetic: the sum of t ticks and s quarters of a
\* tick, rounded to the nearest tick, a tie going to the even one.
FloatAdd(t, s) ==
    LET exact == 4 * t + s
        down  == exact \div 4
        rem   == exact % 4
    IN  IF rem < 2 \/ (rem = 2 /\ down % 2 = 0) THEN down ELSE down + 1

\* On entry to the loop: days = [], jd = start_jd.  The steps: one that
\* the addition absorbs, one that it rounds, and one and two whole ticks.
InitElection ==
    /\ Idle({"election"})
    /\ pc = "loop"
    /\ sun \in {0, 300}
    /\ scanOrb \in {0, 1}
    /\ step \in {1, 3, 4, 8}
    /\ end_jd \in 0 .. MaxSamples - 1
    /\ moonAt \in [1 .. end_jd + 1 -> MoonGrid(sun)]
    /\ jd = 0
    /\ days = <<>>
    /\ samples = <<>>

\* One pass of the while loop.  The model follows a scan for one pass more
\* than the range has ticks.
SampleInstant ==
    /\ pc = "loop"
    /\ StillInRange(jd, end_jd)
    /\ Len(samples) <= MaxSamples
    /\ samples' = Append(samples, jd)
    /\ days' = IF InOrbOfTrine(moonAt[jd + 1], sun, scanOrb)
               THEN Append(days, jd) ELSE days
    /\ jd' = FloatAdd(jd, step)
    /\ UNCHANGED <<pc, sun, moonAt, scanOrb, end_jd, step>>

\* The loop condition fails: return days.
ReturnDays ==
    /\ pc = "loop"
    /\ ~StillInRange(jd, end_jd)
    /\ pc' = "done"
    /\ UNCHANGED <<sun, moonAt, scanOrb, end_jd, step, jd, days, samples>>

(***************************************************************************)
(* filter_aspects_for_wheel (src/app.py:674-683)                           *)
(***************************************************************************)
\* An aspect list handed to the filter holds at most this many aspects.
MaxListed == 3

\* A plausible slip: the minor aspects are cut without being sorted.
StrongestFirst_unsorted(minor) == minor

\* minor.sort(key=lambda a: a['strength'], reverse=True)
StrongestFirst(minor) == SortByStrength(minor, Len(minor))

\* list[:k] for k >= 0
Take(list, k) == SubSeq(list, 1, IF k < Len(list) THEN k ELSE Len(list))

filter_aspects_for_wheel(asps, k) ==
    LET major == SelectSeq(asps, LAMBDA a : a.type = "major")
        minor == SelectSeq(asps, LAMBDA a : a.type # "major")
    IN  major \o Take(StrongestFirst(minor), k)

\* The aspects of a list given to the filter: each is major, minor or
\* without a type ("None": a.get('type') finds no key), and has one of
\* three strengths, two of which are the same number; planet1 numbers the
\* aspect by its place in the list, so that no two are the same dict.
ListedAspects(n) ==
    { [i \in 1 .. n |->
          [planet1 |-> i, type |-> f[i][1], strength |-> f[i][2]]] :
        f \in [1 .. n -> {"major", "minor", "None"}
                            \X {<<1, 4>>, <<1, 2>>, <<2, 4>>}] }

InitWheel ==
    /\ Idle({"chart", "wheel"})
    /\ pc = "start"
    /\ positions = <<>>
    /\ \E n \in 0 .. MaxListed : aspects \in ListedAspects(n)
    /\ patterns = <<>>
    /\ max_minor \in 0 .. MaxListed
    /\ wheel = <<>>

FilterAspectsForWheel ==
    /\ pc = "start"
    /\ wheel' = filter_aspects_for_wheel(aspects, max_minor)
    /\ pc' = "done"
    /\ UNCHANGED <<positions, aspects, patterns, max_minor>>

(***************************************************************************)
(* diff(jd) of solar_return_jd and lunar_return_jd (src/app.py:707-709,    *)
(* 730-732) on its own: lon1 is the longitude of the body at jd, lon2 the  *)
(* natal longitude, both as compute_positions returns them, in [0, 360).   *)
(***************************************************************************)
InitDifference ==
    /\ Idle({"geo"})
    /\ pc = "start"
    /\ lon1 \in InCircle
    /\ lon2 \in InCircle
    /\ diff = 0

ReturnDiff ==
    /\ pc = "start"
    /\ diff' = SignedDifference(lon1 - lon2)
    /\ pc' = "done"
    /\ UNCHANGED <<lon1, lon2>>

(***************************************************************************)
(* compute_aspects_to_angles (src/app.py:498-511), and the calls that are  *)
(* given the same chart: what each of them leaves of its arguments.        *)
(***************************************************************************)
\* The chart given to the calls holds at most this many bodies.
MaxFrameBodies == 3

\* d[key] = value on a dict: an existing key keeps its place.
SetItem(d, key, value) ==
    IF \E i \in 1 .. Len(d) : d[i].name = key
    THEN [i \in 1 .. Len(d) |->
             IF d[i].name = key THEN [d[i] EXCEPT !.lon = value] ELSE d[i]]
    ELSE Append(d, [name |-> key, lon |-> value])

\* A plausible slip: data = positions, the same dict under a second name.
AfterStores_alias(pos, a, m) ==
    LET dd == SetItem(SetItem(pos, "Ascendant", a), "Midheaven", m)
    IN  [positions |-> dd, data |-> dd]

\* The caller's dict and data after data = positions.copy() and the two
\* stores into data.
AfterStores(pos, a, m) ==
    [positions |-> pos,
     data      |-> SetItem(SetItem(pos, "Ascendant", a), "Midheaven", m)]

InitFrame ==
    /\ Idle({"chart", "syn", "wheel", "angle"})
    /\ pc = "start"
    /\ \E n \in 0 .. MaxFrameBodies : positions \in Charts(n, {0, 90, 180})
    /\ \/ aspects = <<>> /\ max_minor = 0
       \/ aspects = compute_aspects(positions) /\ max_minor = 1
    /\ patterns = <<>>
    /\ chart1 = positions
    /\ \E n \in 0 .. 2 : chart2 \in Charts(n, {0, 174})
    /\ synastry = <<>>
    /\ transit = <<>>
    /\ wheel = <<>>
    /\ asc \in {0, 95}
    /\ mc = 90
    /\ angle_aspects = <<>>

ComputeAspectsToAngles ==
    /\ pc = "start"
    /\ LET after == AfterStores(positions, asc, mc)
           Angular(x) == \/ "Ascendant" \in {x.planet1, x.planet2}
                         \/ "Midheaven" \in {x.planet1, x.planet2}
       IN  /\ positions' = after.positions
           /\ angle_aspects' = SelectSeq(compute_aspects(after.data), Angular)
    /\ pc' = "angles"
    /\ UNCHANGED <<aspects, patterns, asc, mc>>

(***************************************************************************)
(* The saved charts (src/app.py:87-91, 135-155, 220-230, 1085-1158): the   *)
(* PNG files of the charts directory and the index charts.json, a list of  *)
(* entries of which the model keeps the 'file' field.  The handlers run    *)
(* one at a time, each as one step.                                        *)
(***************************************************************************)
\* The index holds at most this many entries.
MaxCharts == 4

\* The file names f"{slug}_{dt_str}.png" that the saves can produce.
PngNames == {"a_1.png", "a_2.png", "b_1.png"}

\* A plausible slip: charts.remove(chart), which drops the first entry of
\* the file only.
WithoutFile_first(list, filename) ==
    LET at == CHOOSE i \in 1 .. Len(list) : list[i] = filename
                                               /\ \A j \in 1 .. i - 1 :
                                                     list[j] # filename
    IN  IF \E i \in 1 .. Len(list) : list[i] = filename
        THEN SubSeq(list, 1, at - 1) \o SubSeq(list, at + 1, Len(list))
        ELSE list

\* [c for c in charts if c.get('file') != filename]
WithoutFile(list, filename) == SelectSeq(list, LAMBDA c : c # filename)

\* CHARTS_INDEX holds '[]'; the directory may hold PNG files already.
InitStore ==
    /\ Idle({"store"})
    /\ pc = "start"
    /\ charts = <<>>
    /\ pngs \in SUBSET PngNames

\* save_chart with a name and an image: the file is written, over a file
\* of the same name if there is one, and an entry is appended.
SaveChart ==
    /\ Len(charts) < MaxCharts
    /\ \E fname \in PngNames :
          /\ pngs' = pngs \cup {fname}
          /\ charts' = Append(charts, fname)
    /\ UNCHANGED pc

\* delete_chart: nothing happens unless an entry names the file.
DeleteChart ==
    /\ \E filename \in PngNames :
          IF \E i \in 1 .. Len(charts) : charts[i] = filename
          THEN /\ pngs' = pngs \ {filename}
               /\ charts' = WithoutFile(charts, filename)
          ELSE UNCHANGED <<pngs, charts>>
    /\ UNCHANGED pc

\* cleanup_saved_charts: too_old are the files whose age exceeds
\* max_age_days, kept those whose unlink raises OSError.
CleanupSavedCharts ==
    /\ \E too_old \in SUBSET pngs, kept \in SUBSET pngs :
          LET valid  == {charts[i] : i \in 1 .. Len(charts)}
              unlink == {p \in pngs : p \notin valid \/ p \in too_old} \ kept
          IN  /\ pngs' = pngs \ unlink
              /\ charts' = SelectSeq(charts, LAMBDA c : c \in pngs \ unlink)
    /\ UNCHANGED pc

(***************************************************************************)
(* Specifications                                                          *)
(***************************************************************************)
NextGeometry ==
    /\ AngularDistance
    /\ UNCHANGED <<houseVars, chartVars, midVars, synVars,
                   returnVars, infoVars, dignityVars, electionVars,
                   wheelVars, angleVars, storeVars>>
SpecGeometry == InitGeometry /\ [][NextGeometry]_vars

NextHouse ==
    /\ HouseFor
    /\ UNCHANGED <<geoVars, chartVars, midVars, synVars,
                   returnVars, infoVars, dignityVars, electionVars,
                   wheelVars, angleVars, storeVars>>
SpecHouse == InitHouse /\ [][NextHouse]_vars

NextAspects ==
    /\ ComputeAspects
    /\ UNCHANGED <<geoVars, houseVars, midVars, synVars,
                   returnVars, infoVars, dignityVars, electionVars,
                   wheelVars, angleVars, storeVars>>
SpecAspects == InitAspects /\ [][NextAspects]_vars

NextPatterns ==
    /\ ComputeAspects \/ DetectChartPatterns
    /\ UNCHANGED <<geoVars, houseVars, midVars, synVars,
                   returnVars, infoVars, dignityVars, electionVars,
                   wheelVars, angleVars, storeVars>>
SpecPatterns == InitPatterns /\ [][NextPatterns]_vars

NextMidpoint ==
    /\ MidpointAngle
    /\ UNCHANGED <<houseVars, chartVars, synVars, returnVars,
                   infoVars, dignityVars, electionVars, wheelVars,
                   angleVars, storeVars>>
SpecMidpoint == InitMidpoint /\ [][NextMidpoint]_vars

NextSynastry ==
    /\ ComputeSynastryAspects \/ Transits
    /\ UNCHANGED <<geoVars, houseVars, chartVars, midVars,
                   returnVars, infoVars, dignityVars, electionVars,
                   wheelVars, angleVars, storeVars>>
SpecSynastry == InitSynastry /\ [][NextSynastry]_vars

NextReturn ==
    /\ Bisect \/ ReturnLastMidpoint
    /\ UNCHANGED <<geoVars, houseVars, chartVars, midVars,
                   synVars, infoVars, dignityVars, electionVars, wheelVars,
                   angleVars, storeVars>>
SpecReturn == InitReturn /\ [][NextReturn]_vars

NextBodyInfo ==
    /\ FetchBody \/ ReturnInfo
    /\ UNCHANGED <<geoVars, houseVars, chartVars, midVars,
                   synVars, returnVars, dignityVars, electionVars,
                   wheelVars, angleVars, storeVars>>
SpecBodyInfo == InitBodyInfo /\ [][NextBodyInfo]_vars

NextDignities ==
    /\ ComputeDignities
    /\ UNCHANGED <<geoVars, houseVars, midVars, synVars,
                   returnVars, infoVars, electionVars, wheelVars, angleVars,
                   storeVars>>
SpecDignities == InitDignities /\ [][NextDignities]_vars

NextElection ==
    /\ SampleInstant \/ ReturnDays
    /\ UNCHANGED <<geoVars, houseVars, chartVars, midVars,
                   synVars, returnVars, infoVars, dignityVars, wheelVars,
                   angleVars, storeVars>>
SpecElection == InitElection /\ [][NextElection]_vars
\* The interpreter keeps running the loop while a pass is possible.
SpecElectionFair == SpecElection /\ WF_vars(NextElection)

NextWheel ==
    /\ FilterAspectsForWheel
    /\ UNCHANGED <<geoVars, houseVars, midVars, synVars,
                   returnVars, infoVars, dignityVars, electionVars,
                   angleVars, storeVars>>
SpecWheel == InitWheel /\ [][NextWheel]_vars

NextDifference ==
    /\ ReturnDiff
    /\ UNCHANGED <<houseVars, chartVars, midVars, synVars,
                   returnVars, infoVars, dignityVars, electionVars,
                   wheelVars, angleVars, storeVars>>
SpecDifference == InitDifference /\ [][NextDifference]_vars

NextFrame ==
    \/ /\ ComputeAspects \/ DetectChartPatterns
       /\ UNCHANGED <<geoVars, houseVars, midVars, synVars,
                      returnVars, infoVars, dignityVars, electionVars,
                      wheelVars, angleVars, storeVars>>
    \/ /\ ComputeAspectsToAngles
       /\ UNCHANGED <<geoVars, houseVars, midVars, synVars,
                      returnVars, infoVars, dignityVars, electionVars,
                      wheelVars, storeVars>>
    \/ /\ ComputeSynastryAspects \/ Transits
       /\ UNCHANGED <<geoVars, houseVars, chartVars, midVars,
                      returnVars, infoVars, dignityVars, electionVars,
                      wheelVars, angleVars, storeVars>>
    \/ /\ FilterAspectsForWheel
       /\ UNCHANGED <<geoVars, houseVars, midVars, synVars,
                      returnVars, infoVars, dignityVars, electionVars,
                      angleVars, storeVars>>
SpecFrame == InitFrame /\ [][NextFrame]_vars

NextStore ==
    /\ SaveChart \/ DeleteChart \/ CleanupSavedCharts
    /\ UNCHANGED <<geoVars, houseVars, chartVars, midVars,
                   synVars, returnVars, infoVars, dignityVars, electionVars,
                   wheelVars, angleVars>>
SpecStore == InitStore /\ [][NextStore]_vars

(***************************************************************************)
(* C3: angular_distance is symmetric and bounded: the value returned for   *)
(* (lon1, lon2) is the value for (lon2, lon1), and lies in [0, 180].       *)
(***************************************************************************)
C3_SymmetricBounded ==
    pc = "done" =>
        /\ diff = angular_distance(lon2, lon1)
        /\ 0 <= diff /\ diff <= 180

\* The call has returned for two longitudes more than a half turn apart,
\* given in descending order, one of them off the circle.
C3_Witness ==
    /\ pc = "done"
    /\ lon1 - lon2 > 180
    /\ lon1 \notin InCircle
    /\ diff > 0

(***************************************************************************)
(* C4: for well-formed cusps and a longitude in [0,360), house_for returns *)
(* i+1 for the unique i whose half-open circular arc                       *)
(* [cusps[i], cusps[(i+1) mod 12]) holds the longitude; the result is in   *)
(* 1..12, a longitude equal to cusps[i] gets house i+1, and the fallback   *)
(* to 12 is never what produced the result.                                *)
(***************************************************************************)
\* The circular arc of house i+1, stated on the circle without the loop's
\* case split.
InArc(lon, c, i) ==
    (lon - c[i + 1]) % 360 < (c[((i + 1) % 12) + 1] - c[i + 1]) % 360

C4_HouseOfArc ==
    pc = "done" =>
        /\ house \in 1 .. 12
        /\ InArc(longitude, cusps, house - 1)
        /\ \A i \in 0 .. 11 : InArc(longitude, cusps, i) => house = i + 1
        /\ \A i \in 0 .. 11 : longitude = cusps[i + 1] => house = i + 1
        /\ \E i \in 0 .. 11 : HouseInterval(longitude, cusps, i)

\* The longitude sits exactly on the cusp that opens the house whose arc wraps
\* past 360, a house other than the first and the last.
C4_Witness ==
    /\ pc = "done"
    /\ \E i \in 1 .. 10 :
          /\ longitude = cusps[i + 1]
          /\ cusps[i + 2] < cusps[i + 1]
          /\ house = i + 1

(***************************************************************************)
(* C1: every aspect returned by compute_aspects has an orb between 0 and   *)
(* the maximum orb of its definition in the aspect table, and a strength   *)
(* between 0 and 1.                                                        *)
(***************************************************************************)
C1_OrbStrengthBounds ==
    pc = "aspects" =>
        \A k \in 1 .. Len(aspects) :
            LET a == aspects[k]
            IN  /\ 0 <= a.orb /\ a.orb <= InfoOf(a.aspect).orb
                /\ a.strength[2] > 0
                /\ 0 <= a.strength[1] /\ a.strength[1] <= a.strength[2]

\* The returned list holds an aspect at the very limit of its orb (strength
\* 0), an exact one (strength 1) and one strictly between.
C1_Witness ==
    /\ pc = "aspects"
    /\ \E k \in 1 .. Len(aspects) :
          aspects[k].orb = InfoOf(aspects[k].aspect).orb
    /\ \E k \in 1 .. Len(aspects) : aspects[k].orb = 0
    /\ \E k \in 1 .. Len(aspects) :
          /\ 0 < aspects[k].strength[1]
          /\ aspects[k].strength[1] < aspects[k].strength[2]

(***************************************************************************)
(* C2: the list returned by compute_aspects is in non-increasing order of  *)
(* strength, and aspects of equal strength keep their discovery order:     *)
(* first the order of their body pair in the i < j enumeration of the      *)
(* input map, then the order of their definition in the aspect table.      *)
(***************************************************************************)
BodyIndex(name) ==
    CHOOSE i \in 1 .. Len(positions) : positions[i].name = name

DefIndex(name) ==
    CHOOSE k \in 1 .. NumAspectDefs : ASPECTS_INFO[k].name = name

\* a was discovered before b: lexicographic on (i, j, definition).
DiscoveredBefore(a, b) ==
    LET ai == BodyIndex(a.planet1)  aj == BodyIndex(a.planet2)
        bi == BodyIndex(b.planet1)  bj == BodyIndex(b.planet2)
    IN  \/ ai < bi
        \/ ai = bi /\ aj < bj
        \/ ai = bi /\ aj = bj /\ DefIndex(a.aspect) < DefIndex(b.aspect)

C2_SortedStable ==
    pc = "aspects" =>
        \A k, l \in 1 .. Len(aspects) :
            k < l =>
                /\ ~StrengthLess(aspects[k].strength, aspects[l].strength)
                /\ StrengthEq(aspects[k].strength, aspects[l].strength)
                       => DiscoveredBefore(aspects[k], aspects[l])

\* The sort has moved a later discovery in front of an earlier one, and the
\* list holds two equally strong aspects of different definitions whose
\* common strength is neither 0 nor 1.
C2_Witness ==
    /\ pc = "aspects"
    /\ \E k, l \in 1 .. Len(aspects) :
          k < l /\ DiscoveredBefore(aspects[l], aspects[k])
    /\ \E k, l \in 1 .. Len(aspects) :
          /\ k < l
          /\ StrengthEq(aspects[k].strength, aspects[l].strength)
          /\ aspects[k].aspect # aspects[l].aspect
          /\ 0 < aspects[k].strength[1]
          /\ aspects[k].strength[1] < aspects[k].strength[2]

(***************************************************************************)
(* Vocabulary of the claims about detect_chart_patterns.                   *)
(***************************************************************************)
\* The input aspect list joins bodies a and b by an aspect of the kind.
Joined(kind, a, b) ==
    \E k \in 1 .. Len(aspects) :
        /\ aspects[k].aspect = kind
        /\ {aspects[k].planet1, aspects[k].planet2} = {a, b}

PoolNames == Range(BodyPool)

\* The body tuples of each returned collection, in the order returned.
TuplesOf(coll) ==
    CASE coll = "grand_trines" -> patterns.grand_trines
      [] coll = "t_squares" ->
            [k \in 1 .. Len(patterns.t_squares) |-> patterns.t_squares[k].planets]
      [] coll = "kites" -> patterns.kites
      [] coll = "yods" -> patterns.yods
      [] coll = "stelliums" ->
            [k \in 1 .. Len(patterns.stelliums) |-> patterns.stelliums[k].planets]

Collections == {"grand_trines", "t_squares", "kites", "yods", "stelliums"}

\* The collection holds a pattern over exactly the bodies of S.
Reported(coll, S) ==
    \E k \in 1 .. Len(TuplesOf(coll)) : Range(TuplesOf(coll)[k]) = S

\* The sets of three and of four bodies.
Triples == {S \in SUBSET PoolNames : Cardinality(S) = 3}
Quadruples == {S \in SUBSET PoolNames : Cardinality(S) = 4}

(***************************************************************************)
(* C5: when every input aspect joins two distinct bodies, every tuple in   *)
(* grand_trines, t_squares, kites, yods and stelliums is strictly          *)
(* ascending by body name (sorted, no body twice), and no collection holds *)
(* the same tuple twice.                                                   *)
(***************************************************************************)
C5_TuplesCanonical ==
    (pc = "done"
        /\ \A k \in 1 .. Len(aspects) : aspects[k].planet1 # aspects[k].planet2)
    => \A coll \in Collections :
          LET ts == TuplesOf(coll)
          IN  /\ \A k \in 1 .. Len(ts) :
                    \A m \in 1 .. Len(ts[k]) - 1 :
                        NameLess(ts[k][m], ts[k][m + 1])
              /\ \A k, l \in 1 .. Len(ts) : k # l => ts[k] # ts[l]

\* Two T-squares are reported from a list that names every aspect twice,
\* once in each direction, so that each is found twice and out of order.
C5_Witness ==
    /\ pc = "done"
    /\ Len(patterns.t_squares) >= 2
    /\ \E k, l \in 1 .. Len(aspects) :
          /\ aspects[k].aspect = "Opposition"
          /\ aspects[l].aspect = "Opposition"
          /\ aspects[k].planet1 = aspects[l].planet2
          /\ aspects[k].planet2 = aspects[l].planet1

(***************************************************************************)
(* C6: every collection returned by detect_chart_patterns (grand_trines,   *)
(* t_squares, kites, yods and stelliums) lists its patterns in             *)
(* lexicographic order of their body tuples.                               *)
(***************************************************************************)
InTupleOrder(ts) ==
    \A k, l \in 1 .. Len(ts) :
        k < l => ts[k] = ts[l] \/ TupleLess(ts[k], ts[l])

C6_AllCollectionsOrdered ==
    pc = "done" => \A coll \in Collections : InTupleOrder(TuplesOf(coll))

(***************************************************************************)
(* C7: a Grand Trine over three bodies is reported exactly when each of    *)
(* the three pairs of those bodies is joined by a Trine in the input list. *)
(***************************************************************************)
C7_GrandTrineIffTrineTriangle ==
    pc = "done" =>
        /\ \A S \in Triples :
              Reported("grand_trines", S)
                  <=> /\ S \subseteq BodiesOf(aspects)
                      /\ \A a, b \in S : a # b => Joined("Trine", a, b)
        /\ \A k \in 1 .. Len(patterns.grand_trines) :
              Cardinality(Range(patterns.grand_trines[k])) = 3

\* A Grand Trine is reported while another triple, with two Trine edges and
\* the third missing, is not.
C7_Witness ==
    /\ pc = "done"
    /\ patterns.grand_trines # <<>>
    /\ \E a, b, c \in PoolNames :
          /\ a # b /\ a # c /\ b # c
          /\ Joined("Trine", a, b) /\ Joined("Trine", a, c)
          /\ ~Joined("Trine", b, c)
          /\ ~Reported("grand_trines", {a, b, c})

(***************************************************************************)
(* C8: a T-square over {x, y, z} is reported exactly when x and y are in   *)
(* Opposition and z is in Square with both; with positions supplied its    *)
(* emphasis is the modality shared by the signs of all three bodies, and   *)
(* it is absent when they share none or when no positions are supplied.    *)
(***************************************************************************)
\* All bodies of the tuple stand in signs of the modality.
SharesMode(ts, m) ==
    \A k \in 1 .. Len(ts) : SignOf(LonOf(positions, ts[k])) \in m.signs

C8_TSquareIffOppositionAndSquares ==
    pc = "done" =>
        /\ \A S \in Triples :
              Reported("t_squares", S)
                  <=> /\ S \subseteq BodiesOf(aspects)
                      /\ \E z \in S :
                            /\ \E x, y \in S \ {z} :
                                  x # y /\ Joined("Opposition", x, y)
                            /\ \A x \in S \ {z} : Joined("Square", z, x)
        /\ \A k \in 1 .. Len(patterns.t_squares) :
              LET e == patterns.t_squares[k]
              IN  /\ Cardinality(Range(e.planets)) = 3
                  /\ positions = <<>> => e.type = "None"
                  /\ positions # <<>> =>
                        /\ \A m \in Range(MODALITY_SIGNS) :
                              e.type = m.mode <=> SharesMode(e.planets, m)
                        /\ e.type = "None" <=>
                              \A m \in Range(MODALITY_SIGNS) :
                                  ~SharesMode(e.planets, m)

\* With positions supplied, one T-square is reported with the emphasis
\* Cardinal and another, whose apex stands in a Mutable sign, with none.
C8_Witness ==
    /\ pc = "done"
    /\ positions # <<>>
    /\ \E k, l \in 1 .. Len(patterns.t_squares) :
          /\ patterns.t_squares[k].type = "Cardinal"
          /\ patterns.t_squares[l].type = "None"

(***************************************************************************)
(* C9: a Kite over four bodies is reported exactly when three of them form *)
(* a reported Grand Trine and the fourth, outside it, is in Opposition     *)
(* with one vertex of it and in Sextile with both of the other two.        *)
(***************************************************************************)
KiteShape(S, d) ==
    /\ Reported("grand_trines", S \ {d})
    /\ \E p \in S \ {d} :
          /\ Joined("Opposition", d, p)
          /\ \A r \in S \ {d, p} : Joined("Sextile", d, r)

C9_KiteIffTrinePlusApex ==
    pc = "done" =>
        /\ \A S \in Quadruples :
              Reported("kites", S)
                  <=> /\ S \subseteq BodiesOf(aspects)
                      /\ \E d \in S : KiteShape(S, d)
        /\ \A k \in 1 .. Len(patterns.kites) :
              Cardinality(Range(patterns.kites[k])) = 4

\* A Kite is reported for a chart whose aspects were computed from its
\* positions.
C9_Witness ==
    /\ pc = "done"
    /\ positions # <<>>
    /\ patterns.kites # <<>>

(***************************************************************************)
(* C10: a Yod over {a, b, c} is reported exactly when two of the bodies    *)
(* are joined by a Sextile and the third is joined by a Quincunx to each   *)
(* of those two.                                                           *)
(***************************************************************************)
C10_YodIffSextileAndQuincunxes ==
    pc = "done" =>
        /\ \A S \in Triples :
              Reported("yods", S)
                  <=> /\ S \subseteq BodiesOf(aspects)
                      /\ \E c \in S :
                            /\ \E a, b \in S \ {c} :
                                  a # b /\ Joined("Sextile", a, b)
                            /\ \A a \in S \ {c} : Joined("Quincunx", c, a)
        /\ \A k \in 1 .. Len(patterns.yods) :
              Cardinality(Range(patterns.yods[k])) = 3

\* A Yod is reported for a chart whose aspects were computed from its
\* positions.
C10_Witness ==
    /\ pc = "done"
    /\ positions # <<>>
    /\ patterns.yods # <<>>

(***************************************************************************)
(* C11: with positions supplied, every reported Stellium names at least 3  *)
(* bodies, all of them in the reported sign and pairwise at most 8 degrees *)
(* apart within it (so bodies of different signs are never grouped), and   *)
(* any three bodies of one sign that span at most 8 degrees appear         *)
(* together in one reported Stellium of that sign.                         *)
(***************************************************************************)
Placed(b) == \E i \in 1 .. Len(positions) : positions[i].name = b
DegOf(b) == LonOf(positions, b) % 30
CloseInSign(S) ==
    /\ \A b \in S : Placed(b)
    /\ \A a, b \in S :
          /\ SignOf(LonOf(positions, a)) = SignOf(LonOf(positions, b))
          /\ Abs(DegOf(a) - DegOf(b)) <= 8

C11_StelliumWithinSignAndOrb ==
    (pc = "done" /\ positions # <<>>)
    => /\ \A k \in 1 .. Len(patterns.stelliums) :
             LET st == patterns.stelliums[k]
             IN  /\ Cardinality(Range(st.planets)) >= 3
                 /\ CloseInSign(Range(st.planets))
                 /\ \A b \in Range(st.planets) :
                       SignOf(LonOf(positions, b)) = st.sign
       /\ \A S \in Triples :
             CloseInSign(S)
             => \E k \in 1 .. Len(patterns.stelliums) :
                   /\ S \subseteq Range(patterns.stelliums[k].planets)
                   /\ \A b \in S :
                         SignOf(LonOf(positions, b)) = patterns.stelliums[k].sign

\* A Stellium is reported while a further body, within 8 degrees of one of
\* its members but across the sign boundary, is left out of it.
C11_Witness ==
    /\ pc = "done"
    /\ Len(patterns.stelliums) = 1
    /\ \E a \in Range(patterns.stelliums[1].planets), b \in PoolNames :
          /\ Placed(b)
          /\ b \notin Range(patterns.stelliums[1].planets)
          /\ angular_distance(LonOf(positions, a), LonOf(positions, b)) <= 8
          /\ SignOf(LonOf(positions, a)) # SignOf(LonOf(positions, b))

(***************************************************************************)
(* C12: for all longitudes a, b in [0,360) the midpoint m returned by      *)
(* midpoint_angle lies in [0,360) and angular_distance(m, a) =             *)
(* angular_distance(m, b) = angular_distance(a, b) / 2; the midpoint of 10 *)
(* and 350 is 0 and the midpoint of 0 and 180 is 90.  (m and the distances *)
(* from it are counted in half degrees.)                                   *)
(***************************************************************************)
\* angular_distance between two values given in half degrees, in half
\* degrees.
HalfDistance(x, y) ==
    LET d == Abs(x - y) % 720
    IN  IF d > 360 THEN 720 - d ELSE d

C12_MidpointOnShortArc ==
    pc = "done"
    => /\ 0 <= midpoint /\ midpoint < 720
       /\ HalfDistance(midpoint, 2 * lon1) = angular_distance(lon1, lon2)
       /\ HalfDistance(midpoint, 2 * lon2) = angular_distance(lon1, lon2)
       /\ (lon1 = 10 /\ lon2 = 350) => midpoint = 0
       /\ (lon1 = 0 /\ lon2 = 180) => midpoint = 2 * 90

\* The two longitudes lie more than 180 degrees apart by subtraction, an
\* odd number of degrees, so the midpoint is on the arc through 0 and falls
\* on a half degree.
C12_Witness ==
    /\ pc = "done"
    /\ lon1 - lon2 > 180
    /\ midpoint % 2 = 1
    /\ midpoint < 2 * lon2

(***************************************************************************)
(* C13: the cross aspects of compute_synastry_aspects and of transits are  *)
(* exactly the aspects between one body of the first chart and one body of *)
(* the second, same-named bodies included: one record for each such pair   *)
(* and aspect definition within orb and no other record, planet1 the body  *)
(* of the first chart and planet2 the body of the second, both under their *)
(* plain names.                                                            *)
(***************************************************************************)
\* (i, j, k): body i of the first chart and body j of the second are within
\* orb of aspect definition k.
CrossHits ==
    { h \in (1 .. Len(chart1)) \X (1 .. Len(chart2)) \X (1 .. NumAspectDefs) :
        Abs(angular_distance(chart1[h[1]].lon, chart2[h[2]].lon)
              - ASPECTS_INFO[h[3]].angle) <= ASPECTS_INFO[h[3]].orb }

\* The record of such an aspect, under the plain names.
CrossRecord(h) ==
    AspectRecord(<<chart1[h[1]], chart2[h[2]]>>, 1, 2, h[3])

ExactlyCross(cross) ==
    /\ Len(cross) = Cardinality(CrossHits)
    /\ \A h \in CrossHits :
          \E n \in 1 .. Len(cross) : cross[n] = CrossRecord(h)
    /\ \A n \in 1 .. Len(cross) :
          /\ \E h \in CrossHits : cross[n] = CrossRecord(h)
          /\ cross[n].planet1 \in NamesOf(chart1)
          /\ cross[n].planet2 \in NamesOf(chart2)

C13_CrossAspectsOnly ==
    /\ pc = "done" => ExactlyCross(synastry.cross_aspects)
    /\ pc = "transits" => ExactlyCross(transit.aspects)

\* Sun opposes Sun across the charts, and each chart holds an aspect of its
\* own, which the combined list has and the cross list leaves out.
C13_Witness ==
    /\ pc = "done"
    /\ \E n \in 1 .. Len(synastry.cross_aspects) :
          /\ synastry.cross_aspects[n].planet1 = "Sun"
          /\ synastry.cross_aspects[n].planet2 = "Sun"
          /\ synastry.cross_aspects[n].aspect = "Opposition"
    /\ compute_aspects(chart1) # <<>>
    /\ compute_aspects(chart2) # <<>>

(***************************************************************************)
(* C14: composite_positions holds exactly the bodies present in both       *)
(* charts, each at the short-arc midpoint of its two longitudes;           *)
(* composite_aspects is empty when fewer than 2 bodies are common and      *)
(* otherwise is compute_aspects of the composite positions; the davison    *)
(* positions and aspects equal the composite ones.                         *)
(***************************************************************************)
CommonBodies == NamesOf(chart1) \cap NamesOf(chart2)

C14_CompositeOfCommonBodies ==
    pc = "done"
    => LET composite == synastry.composite_positions
       IN  /\ NamesOf(composite) = CommonBodies
           /\ Len(composite) = Cardinality(CommonBodies)
           /\ \A k \in 1 .. Len(composite) :
                 2 * composite[k].lon =
                     midpoint_angle(LonOf(chart1, composite[k].name),
                                    LonOf(chart2, composite[k].name))
           /\ Cardinality(CommonBodies) < 2
                 => synastry.composite_aspects = <<>>
           /\ Cardinality(CommonBodies) >= 2
                 => synastry.composite_aspects = compute_aspects(composite)
           /\ synastry.davison_positions = composite
           /\ synastry.davison_aspects = synastry.composite_aspects

\* Two bodies are common and a third is in the first chart only; one of the
\* common bodies has its midpoint on the arc through 0, and the two
\* midpoints are in aspect.
C14_Witness ==
    /\ pc = "done"
    /\ Cardinality(CommonBodies) = 2
    /\ NamesOf(chart1) \ NamesOf(chart2) # {}
    /\ \E b \in CommonBodies : Abs(LonOf(chart1, b) - LonOf(chart2, b)) > 180
    /\ synastry.composite_aspects # <<>>

(***************************************************************************)
(* C15, as stated: when the longitude increases over the initial bracket   *)
(* and equals the natal longitude at an instant r inside it, then          *)
(* low <= r <= high at every iteration, the loop evaluates the longitude   *)
(* at most 20 times, and the instant returned, whether early because       *)
(* |d| < tol or as the 20th midpoint, differs from r by at most            *)
(* (initial bracket width) / 2^20, so that the signed difference at the    *)
(* returned instant is below 1e-4 degree.                                  *)
(***************************************************************************)
\* (initial bracket width) / 2^20, in ticks
Resolution == Bracket \div 2^Iterations
\* 1e-4 degree, in units
ScenarioBound == 10 * Tol

BracketHoldsRoot == low <= root /\ root <= high

C15_ReturnedWithinResolution ==
    /\ BracketHoldsRoot
    /\ evals <= Iterations
    /\ pc = "done"
          => /\ Abs(returned.jd - root) <= Resolution
             /\ Abs(LongitudeDiff(returned.jd)) < ScenarioBound

(***************************************************************************)
(* C15, amended: low <= r <= high at every iteration, the loop evaluates   *)
(* the longitude at most 20 times, and the instant returned is either one  *)
(* at which |d| < tol (an early return, which can lie farther from r than  *)
(* the resolution) or the 20th midpoint, which differs from r by at most   *)
(* (initial bracket width) / 2^20; in both cases the signed difference at  *)
(* the returned instant is below 1e-4 degree.                              *)
(***************************************************************************)
C15_ReturnedWithinTolOrResolution ==
    /\ BracketHoldsRoot
    /\ evals <= Iterations
    /\ pc = "done"
          => /\ \/ Abs(LongitudeDiff(returned.jd)) < Tol
                \/ /\ evals = Iterations
                   /\ Abs(returned.jd - root) <= Resolution
             /\ Abs(LongitudeDiff(returned.jd)) < ScenarioBound

\* The loop was used up without meeting the tolerance, and the 20th
\* midpoint is returned, within the resolution of r.
C15_Witness ==
    /\ pc = "done"
    /\ evals = Iterations
    /\ Abs(dmid) >= Tol
    /\ low < root /\ root < high
    /\ returned.jd # root
    /\ Abs(returned.jd - root) <= Resolution

(***************************************************************************)
(* C16: when the loop uses up its 20 iterations without reaching           *)
(* |d| < tol, the function returns the last midpoint and the result is     *)
(* annotated as unconverged, so that the caller can tell it from a         *)
(* converged result.                                                       *)
(***************************************************************************)
C16_UnconvergedAnnotated ==
    (pc = "done" /\ evals = Iterations /\ Abs(dmid) >= Tol)
    => /\ returned.jd = mid
       /\ "converged" \in DOMAIN returned

(***************************************************************************)
(* C17: compute_body_info never returns a partial map: when it returns,    *)
(* the map (and so that of compute_positions) has an entry for every body  *)
(* of the table, and otherwise it fails.  When the primary source fails    *)
(* for Chiron, Ceres, Pallas, Juno or Vesta, the secondary source is asked *)
(* once, for that body, before any failure is passed on; a failure of the  *)
(* primary source for another body, or of the secondary query, is passed   *)
(* on to the caller, and no body is left out silently.                     *)
(***************************************************************************)
SecondaryBodies == {"Chiron", "Ceres", "Pallas", "Juno", "Vesta"}

\* The Horizons designation of each body with a secondary source.
SecondaryKey(b) ==
    CASE b = "Ceres" -> "1" [] b = "Pallas" -> "2" [] b = "Juno" -> "3"
      [] b = "Vesta" -> "4" [] b = "Chiron" -> "2060"

AskedPrimary(b) ==
    \E k \in 1 .. Len(queries) : queries[k] = <<"primary", b>>
TimesAskedSecondary(b) ==
    Cardinality({k \in 1 .. Len(queries) :
                    queries[k][1] # "primary" /\ queries[k][2] = b})

C17_CompleteOrFailed ==
    /\ outcome = "returned"
          => /\ compute_positions(bodyInfo) = Planets(node)
             /\ primaryFails \subseteq SecondaryBodies
             /\ primaryFails \cap secondaryFails = {}
    /\ \A k \in 1 .. Len(queries) :
          queries[k][1] # "primary"
          => /\ queries[k][2] \in SecondaryBodies \cap primaryFails
             /\ queries[k][1] = SecondaryKey(queries[k][2])
             /\ k > 1 /\ queries[k - 1] = <<"primary", queries[k][2]>>
    /\ \A b \in SecondaryBodies \cap primaryFails :
          AskedPrimary(b)
          => TimesAskedSecondary(b) = 1
    /\ \A b \in Range(Planets(node)) \ (SecondaryBodies \cap primaryFails) :
          TimesAskedSecondary(b) = 0
    /\ outcome = "raised"
          => LET last == queries[Len(queries)]
             IN  \/ last[1] = "primary"
                    /\ last[2] \in primaryFails \ SecondaryBodies
                 \/ last[1] # "primary" /\ last[2] \in secondaryFails
    /\ \A b \in Range(Planets(node)) :
          AskedPrimary(b)
          => \/ \E k \in 1 .. Len(bodyInfo) : bodyInfo[k].name = b
             \/ outcome = "raised" /\ queries[Len(queries)][2] = b

\* The primary source failed for Chiron and for one of the four asteroids,
\* the secondary source answered for both, and the full map is returned.
C17_Witness ==
    /\ outcome = "returned"
    /\ "Chiron" \in primaryFails
    /\ primaryFails \cap {"Ceres", "Pallas", "Juno", "Vesta"} # {}
    /\ secondaryFails # {}
    /\ Len(bodyInfo) = 17

(***************************************************************************)
(* C18: for every body and longitude compute_dignities gives Domicile if   *)
(* the body's sign is one of its domicile signs, otherwise Detriment if    *)
(* the sign is opposite one of them, otherwise Exaltation if it is the     *)
(* body's exaltation sign, otherwise Fall if it is opposite that sign,     *)
(* otherwise no dignity; Mercury in Virgo is Domicile, Mercury in Pisces   *)
(* is Detriment, and a body with no table entry has no dignity anywhere.   *)
(***************************************************************************)
\* The sign a longitude falls in, counted from Aries = 0 at 0 degrees.
SignNumber(lon) == CHOOSE s \in 0 .. 11 : \E t \in -2 .. 2 :
                      360 * t + 30 * s <= lon /\ lon < 360 * t + 30 * s + 30
NumberOf(sign) == CHOOSE s \in 0 .. 11 : ZODIAC_SIGNS[s + 1] = sign
Facing(s) == (s + 6) % 12

DomicileNumbers(b) ==
    UNION { {NumberOf(r.signs[k]) : k \in 1 .. Len(r.signs)} :
              r \in {x \in Range(DOMICILE_SIGNS) : x.name = b} }
ExaltationNumbers(b) ==
    {NumberOf(r.sign) : r \in {x \in Range(EXALTATION_SIGNS) : x.name = b}}

Expected(b, lon) ==
    LET s == SignNumber(lon)
    IN  IF s \in DomicileNumbers(b) THEN "Domicile"
        ELSE IF \E t \in DomicileNumbers(b) : Facing(t) = s THEN "Detriment"
        ELSE IF s \in ExaltationNumbers(b) THEN "Exaltation"
        ELSE IF \E t \in ExaltationNumbers(b) : Facing(t) = s THEN "Fall"
        ELSE ""

C18_DignityPrecedence ==
    pc = "done"
    => /\ Len(dignities) = Len(positions)
       /\ \A k \in 1 .. Len(positions) :
             LET b   == positions[k].name
                 lon == positions[k].lon
             IN  /\ dignities[k].name = b
                 /\ dignities[k].dignity = Expected(b, lon)
                 /\ (b = "Mercury" /\ 150 <= lon /\ lon < 180)
                       => dignities[k].dignity = "Domicile"
                 /\ (b = "Mercury" /\ 330 <= lon /\ lon < 360)
                       => dignities[k].dignity = "Detriment"
                 /\ b \in {"Chiron", "Mean Node"} => dignities[k].dignity = ""

\* Mercury in Pisces: the sign is opposite both a domicile sign and the
\* exaltation sign of the body, and Detriment is given.
C18_Witness ==
    /\ pc = "done"
    /\ \E k \in 1 .. Len(positions) :
          /\ positions[k].name = "Mercury"
          /\ SignOf(positions[k].lon) = "Pisces"
          /\ dignities[k].dignity = "Detriment"

(***************************************************************************)
(* C19, as stated: electional_days collects a sampled instant exactly when *)
(* |difference - 120| <= orb, where difference is the signed difference    *)
(* between the transiting Moon's longitude at that instant and the natal   *)
(* Sun's longitude; every qualifying sample is returned and no other.      *)
(***************************************************************************)
\* The instants the scan has sampled.
Sampled == {samples[k] : k \in 1 .. Len(samples)}
Collected(t) == \E k \in 1 .. Len(days) : days[k] = t

C19_CollectsSignedTrine ==
    pc = "done"
    => \A t \in Sampled :
          Collected(t)
          <=> Abs(SignedDifference(moonAt[t + 1] - sun) - 120) <= scanOrb

(***************************************************************************)
(* C19, amended: electional_days collects a sampled instant exactly when   *)
(* |difference - 120| <= orb, where difference is the angular distance     *)
(* (the absolute value of the signed difference) between the transiting    *)
(* Moon's longitude and the natal Sun's longitude, so the trine on either  *)
(* side of the Sun qualifies; every qualifying sample is returned and no   *)
(* other.                                                                  *)
(***************************************************************************)
C19_CollectsTrineEitherSide ==
    pc = "done"
    => /\ \A t \in Sampled :
             Collected(t)
             <=> Abs(angular_distance(moonAt[t + 1], sun) - 120) <= scanOrb
       /\ \A k \in 1 .. Len(days) : days[k] \in Sampled

\* The scan met the Moon 120 degrees ahead of the Sun, 120 degrees behind
\* it, and out of orb, and returned the first two instants only.
C19_Witness ==
    /\ pc = "done"
    /\ Len(days) = 2
    /\ \E t, u, v \in Sampled :
          /\ SignedDifference(moonAt[t + 1] - sun) = 120
          /\ SignedDifference(moonAt[u + 1] - sun) = -120
          /\ ~Collected(v)

(***************************************************************************)
(* C20: for max_minor >= 0, filter_aspects_for_wheel returns every major   *)
(* aspect of its input, followed by at most max_minor non-major aspects,   *)
(* and the non-major aspects kept are the strongest: no omitted non-major  *)
(* aspect is strictly stronger than a kept one.                            *)
(***************************************************************************)
MajorCount ==
    Cardinality({k \in 1 .. Len(aspects) : aspects[k].type = "major"})
Kept(a) == \E k \in 1 .. Len(wheel) : wheel[k] = a

C20_MajorsThenStrongestMinors ==
    pc = "done"
    => /\ \A k \in 1 .. Len(aspects) :
             aspects[k].type = "major" => Kept(aspects[k])
       /\ Len(wheel) >= MajorCount
       /\ \A k \in 1 .. MajorCount : wheel[k].type = "major"
       /\ \A k \in MajorCount + 1 .. Len(wheel) :
             /\ wheel[k].type # "major"
             /\ \E m \in 1 .. Len(aspects) : aspects[m] = wheel[k]
       /\ \A k, m \in 1 .. Len(wheel) : k # m => wheel[k] # wheel[m]
       /\ Len(wheel) - MajorCount <= max_minor
       /\ \A m \in 1 .. Len(aspects), k \in MajorCount + 1 .. Len(wheel) :
             (aspects[m].type # "major" /\ ~Kept(aspects[m]))
             => ~StrengthLess(wheel[k].strength, aspects[m].strength)

\* A weak minor aspect listed ahead of a stronger one is dropped, the
\* stronger one is kept behind a major aspect that came last in the input.
C20_Witness ==
    /\ pc = "done"
    /\ max_minor = 1
    /\ Len(aspects) = 3
    /\ aspects[1].type # "major" /\ aspects[2].type # "major"
    /\ aspects[3].type = "major"
    /\ StrengthLess(aspects[1].strength, aspects[2].strength)
    /\ wheel = <<aspects[3], aspects[2]>>

(***************************************************************************)
(* C21: two evaluations of compute_synastry_aspects on identical arguments *)
(* return identical results: the result of the call equals the result of   *)
(* any other evaluation on the same two charts, in the order of the        *)
(* composite positions, in the order of composite_aspects and              *)
(* davison_aspects, and in which body of an aspect is planet1.  The code   *)
(* iterates the set chart1.keys() & chart2.keys(), whose order is not      *)
(* fixed by the arguments, so the statement fails.                         *)
(***************************************************************************)
C21_SynastryDeterministic ==
    pc = "done"
    => \A order \in Orders(CommonBodies) :
          LET again == compute_synastry_aspects(chart1, chart2, order)
          IN  /\ synastry.cross_aspects = again.cross_aspects
              /\ synastry.composite_positions = again.composite_positions
              /\ synastry.composite_aspects = again.composite_aspects
              /\ synastry.davison_aspects = again.davison_aspects

(***************************************************************************)
(* C22: for longitudes in [0, 360) the signed difference d computed by     *)
(* the return finder lies in (-180, 180]: it is never -180, and a          *)
(* separation of exactly 180 degrees gives d = +180.  (As stated; the      *)
(* code gives -180 for that separation.)                                   *)
(***************************************************************************)
C22_DiffInHalfOpenAbove ==
    pc = "done"
    => /\ -180 < diff /\ diff <= 180
       /\ Abs(lon1 - lon2) = 180 => diff = 180

\* C22, amended: d lies in [-180, 180], it is the difference of the two
\* longitudes up to whole turns, and a separation of exactly 180 degrees
\* gives d = -180 (so that +180 is not the value of any separation of
\* whole degrees; in floats it arises only when x % 360 rounds to 360.0).
C22_DiffFoldedDownwards ==
    pc = "done"
    => /\ -180 <= diff /\ diff <= 180
       /\ (diff - (lon1 - lon2)) % 360 = 0
       /\ Abs(lon1 - lon2) = 180 => diff = -180

\* The body is 180 degrees ahead of its natal longitude.
C22_Witness ==
    /\ pc = "done"
    /\ lon1 - lon2 = 180
    /\ diff = -180

(***************************************************************************)
(* C23: the orb ranges of no two definitions of the default 9-entry table  *)
(* overlap, so compute_aspects returns at most one aspect for each         *)
(* unordered pair of bodies (exactly one when the distance of the pair is  *)
(* within the orb of a definition, with the earlier body of the chart as   *)
(* planet1), and no aspect joins a body to itself.                         *)
(***************************************************************************)
OrbRangesApart ==
    \A k, l \in 1 .. NumAspectDefs :
        k # l => Abs(ASPECTS_INFO[k].angle - ASPECTS_INFO[l].angle)
                     > ASPECTS_INFO[k].orb + ASPECTS_INFO[l].orb

\* The places in the returned list of the aspects that join bodies b and c.
Joining(b, c) ==
    {k \in 1 .. Len(aspects) :
        {aspects[k].planet1, aspects[k].planet2} = {b, c}}

InSomeOrb(i, j) ==
    \E k \in 1 .. NumAspectDefs :
        AspectOrb(angular_distance(positions[i].lon, positions[j].lon),
                  ASPECTS_INFO[k]) <= ASPECTS_INFO[k].orb

C23_AtMostOneAspectPerPair ==
    /\ NumAspectDefs = 9
    /\ OrbRangesApart
    /\ pc = "aspects"
       => /\ \A k \in 1 .. Len(aspects) :
                aspects[k].planet1 # aspects[k].planet2
          /\ \A i, j \in 1 .. Len(positions) :
                i < j =>
                  LET found == Joining(positions[i].name, positions[j].name)
                  IN  /\ Cardinality(found) = IF InSomeOrb(i, j) THEN 1 ELSE 0
                      /\ \A k \in found :
                            aspects[k].planet1 = positions[i].name

\* Every pair of a chart of three or more bodies is in aspect.
C23_Witness ==
    /\ pc = "aspects"
    /\ Len(positions) >= 3
    /\ 2 * Len(aspects) = Len(positions) * (Len(positions) - 1)

(***************************************************************************)
(* C24: compute_aspects, compute_aspects_to_angles,                        *)
(* compute_synastry_aspects, transits, detect_chart_patterns and           *)
(* filter_aspects_for_wheel leave their arguments unchanged: in every      *)
(* call the position maps keep their keys, values and order                *)
(* (compute_aspects_to_angles adds neither Ascendant nor Midheaven), the   *)
(* aspect list given keeps its order and its records their planet1 and     *)
(* planet2, and the scalar arguments keep their values.  The variable      *)
(* aspects changes only where it receives the list compute_aspects         *)
(* returns.                                                                *)
(***************************************************************************)
C24_ArgumentsUnchanged ==
    [][ /\ positions' = positions
        /\ chart1' = chart1
        /\ chart2' = chart2
        /\ aspects' = aspects \/ (pc = "start" /\ pc' = "aspects")
        /\ <<asc, mc, max_minor>>' = <<asc, mc, max_minor>> ]_vars

\* compute_aspects_to_angles has found an aspect to an angle, which data
\* holds, and the chart of the caller holds its bodies only.
C24_Witness ==
    /\ pc = "angles"
    /\ angle_aspects # <<>>
    /\ positions # <<>>
    /\ NamesOf(positions) \cap {"Ascendant", "Midheaven"} = {}

(***************************************************************************)
(* C25, as stated: for start_jd <= end_jd and step > 0 the scan of         *)
(* electional_days terminates after sampling exactly the instants          *)
(* start_jd + k*step that are <= end_jd (end_jd included when it lies on   *)
(* the grid); the returned instants are strictly increasing, each is one   *)
(* of those samples, and each lies in [start_jd, end_jd].                  *)
(***************************************************************************)
\* The samples are start_jd + k*step for k = 0, 1, ... as long as that is
\* at most end_jd (samples in ticks, step in quarters of a tick).
SampledOnGrid ==
    /\ Len(samples) = ((4 * end_jd) \div step) + 1
    /\ \A k \in 1 .. Len(samples) : 4 * samples[k] = (k - 1) * step

ReturnedInOrder ==
    /\ \A k \in 1 .. Len(days) - 1 : days[k] < days[k + 1]
    /\ \A k \in 1 .. Len(days) :
          /\ days[k] \in Sampled
          /\ 0 <= days[k] /\ days[k] <= end_jd

C25_TerminatesOnGrid ==
    /\ <>(pc = "done")
    /\ [](pc = "done" => SampledOnGrid /\ ReturnedInOrder)

(***************************************************************************)
(* C25, amended: the same, for a step that is a whole number of ticks,     *)
(* that is, when every jd += step of the scan is exact in float            *)
(* arithmetic.                                                             *)
(***************************************************************************)
ExactStep == step % 4 = 0

C25_ExactStepsTerminateOnGrid ==
    /\ ExactStep => <>(pc = "done")
    /\ [](ExactStep /\ pc = "done" => SampledOnGrid /\ ReturnedInOrder)

\* A finished scan with a step of one tick whose last sample is at end_jd
\* and which returned two instants or more.
C25_Witness ==
    /\ pc = "done"
    /\ ExactStep
    /\ Len(samples) >= 2
    /\ samples[Len(samples)] = end_jd
    /\ Len(days) >= 2

====
